---- MODULE Spec2Model ----
(***************************************************************************)
(* A model of the CollisionTree of src/src/main.rs: the sparse quadtree    *)
(* bitmap that the physics and scale-change code query and mutate.         *)
(*                                                                         *)
(* A node is a record with the fields of struct CollisionTree.  An         *)
(* Option is a sequence of length 0 (None) or more (Some): `children' is   *)
(* <<>> or the four children in the order the code builds them, `grid' is  *)
(* <<>> or <<S>> with S the set of indices of the [bool; 4096] array that  *)
(* hold true.                                                              *)
(***************************************************************************)
EXTENDS Integers, Sequences, FiniteSets, TLC

\* const LEAF_SIZE: usize = 64
LEAF_SIZE == 64
\* const SPRITE_WIDTH: usize = 16
SPRITE_WIDTH == 16
\* const MAX_SCALE: usize = 180
MAX_SCALE == 180
\* const SCALE_CHANGE_TIMEOUT: f32 = 1.0
SCALE_CHANGE_TIMEOUT == 1
\* const TILE_SIZE: u32 = 256
TILE_SIZE == 256
\* the particles alive at once: `new_sprites.len() + self.particles.len() < 300'
ParticleCap == 300
\* velocities are held in units of 0.1 / fps: gravity is 3.4 / fps a tick,
\* friction 1.0 / fps, a jump -80.0 / fps, walking 60.0 / fps
GravityUnits == 34
FrictionUnits == 10
JumpUnits == 800
WalkUnits == 600

\* Bounds of the model.  The world of Scene::new is 40000 x 40000 at
\* (-10000, -10000); the model's worlds are smaller and start at
\* (-WorldOrigin, -WorldOrigin).
MaxOps == 3
WorldOrigin == 4
WorldWidth == 68
WorldHeight == 76
\* the number of calls made in the scenario on the 256 x 256 tree
ScenarioOps == 2
\* the ticks of step_physics in a second (fps, 60.0 in the program) and the
\* number of ticks a character is followed for
Fps == 2
MaxTicks == 6
\* the potions a character can reach in one tick
MaxDrinks == 2
\* the number of ticks a swept sprite is followed for
MaxSweeps == 4
\* the tiles waiting in the queue when the cache warmer is first watched
MaxQueue == 3
\* the number of updates the whole scene is followed for
MaxFrames == 8

\* tree     the CollisionTree (Scene::collision_map and its siblings)
\* solid    the pixels a plain set-of-pixels map would hold (reference)
\* last     the last call: its name, arguments and returned value
\* prev     before the last call: tree, solid, the call before it, and
\*          solid as it was before that one
\* nops     the number of calls made
\* panicked the process has aborted (unreachable!(), or an arithmetic
\*          overflow in a build with overflow checks)
\* wrapped  some u32 operation has wrapped (a build without overflow checks)
VARIABLES tree, solid, last, prev, nops, panicked, wrapped

\* sprite   the character (a Sprite of Scene::characters): x_scale, y_scale,
\*          loc, potion_timer and pending_potions
\* potions  Scene::potions: the potions not yet consumed, as (type, end)
\* end_sequence_triggered, final_potion_triggered   the flags of Scene
\* hist     one record for each tick of step_physics made so far: the sprite
\*          and the potions before and after it, and what the tick did
VARIABLES sprite, potions, end_sequence_triggered, final_potion_triggered, hist

\* foreground_map  Scene::foreground_map, a CollisionTree with the bounds of
\*                 the collision map (`tree' is Scene::collision_map)
\* fsolid          the reference of foreground_map, as solid is of tree
\* particles       Scene::particles: loc, x_scale, y_scale, and velocity as a
\*                 direction (its length is 0.5 for debris)
\* tile_queue      Scene::tile_queue: the (layer, x, y) waiting to be redrawn,
\*                 in the order of the IndexSet
VARIABLES foreground_map, fsolid, particles, tile_queue

\* rubble_map  Scene::rubble_map, a CollisionTree with the bounds of the others
\* rsolid      the reference of rubble_map
\* body        the fields of the sprite the sweep works with: is_player,
\*             collider (the indices of its solid cells), velocity (in units
\*             of 0.1 / fps), ground_contact, jumping, sleep_timer (in ticks)
\*             and gravity
\* swept       one record for each sweep made so far
VARIABLES rubble_map, rsolid, body, swept

sweepVars == <<rubble_map, rsolid, body, swept>>

\* terrain_chunks  the chunks of the level main has not yet added to the maps
\* warmed          what the last step of the cache warmer did
\* scene           the sprite table of Scene with its lists of ids: sprites
\*                 (id to the fields of the Sprite, as `sprite' and `body'
\*                 hold them), characters, potions (id, type, end),
\*                 collectables, particles, next_id, collected, score, done
\* locals          the locals of main the update of a frame works with:
\*                 player_id, setup_end and camera_scale
\* ticks           one record for each update of the whole scene made so far
VARIABLES terrain_chunks, warmed, scene, locals, ticks

loopVars == <<terrain_chunks, warmed, scene, locals, ticks>>

sceneVars == <<sprite, potions, end_sequence_triggered, final_potion_triggered, hist,
               foreground_map, fsolid, particles, tile_queue, sweepVars,
               loopVars>>

vars == <<tree, solid, last, prev, nops, panicked, wrapped, sceneVars>>

----------------------------------------------------------------------------
(* u32 arithmetic (free_pixels, width, height and the counts are u32).     *)
(* A u32 value v is held as the integer v when v < 2^31 and as v - 2^32    *)
(* otherwise (its two's complement reading), so that a wrapped value such  *)
(* as 0 - 1 = 2^32 - 1 is the integer -1.  Sums and differences of such    *)
(* integers are then the wrapped u32 results; order and overflow are read  *)
(* off the signs.  A build with overflow checks panics where Overflows /   *)
(* Underflows holds, one without wraps.                                    *)

Sub32(a, b) == a - b

Add32(a, b) == a + b

\* a < b as u32
ULt(a, b) == IF (a < 0) = (b < 0) THEN a < b ELSE b < 0

\* a - b leaves the range of u32
Underflows(a, b) == ULt(a, b)

\* a + b leaves the range of u32
Overflows(a, b) ==
    IF a >= 0 /\ b >= 0 THEN FALSE
    ELSE IF a < 0 /\ b < 0 THEN TRUE
    ELSE a + b >= 0

Max(a, b) == IF a >= b THEN a ELSE b

Min(a, b) == IF a <= b THEN a ELSE b

----------------------------------------------------------------------------
(* CollisionTree::new: width and height rounded up to a multiple of 4      *)

Quant(n) == ((n + 3) \div 4) * 4

New(x, y, width, height) ==
    [x |-> x, y |-> y, width |-> Quant(width), height |-> Quant(height),
     free_pixels |-> Quant(width) * Quant(height),
     children |-> <<>>, grid |-> <<>>]

\* the vec![...] of four children built in insert and insert_rect
Subdivide(self) ==
    << New(self.x, self.y, self.width \div 2, self.height \div 2),
       New(self.x + self.width \div 2, self.y, self.width \div 2, self.height \div 2),
       New(self.x + self.width \div 2, self.y + self.height \div 2,
           self.width \div 2, self.height \div 2),
       New(self.x, self.y + self.height \div 2, self.width \div 2, self.width \div 2) >>

Area(self) == self.width * self.height

IsLeafSized(self) == Area(self) <= LEAF_SIZE * LEAF_SIZE

\* InBounds with the right edge let in (x <= self.x + width, the comparison
\* the rectangle operations make)
InBounds_RightEdgeIn(self, x, y) ==
    /\ x >= self.x
    /\ x <= self.x + self.width
    /\ y >= self.y
    /\ y < self.y + self.height

\* x >= self.x && x < self.x + width && y >= self.y && y < self.y + height
InBounds(self, x, y) ==
    /\ x >= self.x
    /\ x < self.x + self.width
    /\ y >= self.y
    /\ y < self.y + self.height

\* the early return of insert_rect, remove_rect and check_rect
NoOverlap(self, x, y, width, height) ==
    \/ x + width <= self.x
    \/ x > self.x + self.width
    \/ y + height <= self.y
    \/ y > self.y + self.height

\* the "rectangle covers the whole node" test of the three rectangle operations
Covers(self, x, y, width, height) ==
    /\ x <= self.x
    /\ x + width > self.x + self.width
    /\ y <= self.y
    /\ y + height > self.y + self.height

\* the grid indices the two nested for loops of a rectangle operation visit
RectIndices(self, x, y, width, height) ==
    { (px - self.x) + (py - self.y) * self.width :
        px \in Max(self.x, x) .. (Min(self.x + self.width, x + width) - 1),
        py \in Max(self.y, y) .. (Min(self.y + self.height, y + height) - 1) }

GridBits(self) == IF self.grid = <<>> THEN {} ELSE self.grid[1]

AllBits == 0 .. (LEAF_SIZE * LEAF_SIZE - 1)

\* the first child, in vector order, whose bounds hold the point; 0 if none
FirstChild(children, x, y) ==
    IF \E i \in 1..Len(children) : InBounds(children[i], x, y)
    THEN CHOOSE i \in 1..Len(children) :
            /\ InBounds(children[i], x, y)
            /\ \A j \in 1..(i - 1) : ~InBounds(children[j], x, y)
    ELSE 0

----------------------------------------------------------------------------
(* CollisionTree::clear                                                    *)

\* clear that drops children and grid but keeps the counter (what the
\* covering branch of remove_rect does)
clear_KeepsCounter(self) ==
    [self EXCEPT !.children = <<>>, !.grid = <<>>]

clear(self) ==
    [self EXCEPT !.free_pixels = self.width * self.height,
                 !.children = <<>>, !.grid = <<>>]

----------------------------------------------------------------------------
(* CollisionTree::insert.  res is "Err", "OkTrue", "OkFalse", or "Panic"   *)
(* when control reaches unreachable!().                                    *)

RECURSIVE insert(_, _, _)

\* the `for child in children' loop of insert, with its early return
InsertIntoChild(self, x, y) ==
    LET i == FirstChild(self.children, x, y)
    IN  IF i = 0
        THEN [node |-> self, res |-> "Panic", ovf |-> FALSE]
        ELSE LET e == insert(self.children[i], x, y)
                 kids == [self.children EXCEPT ![i] = e.node]
             IN  IF e.res = "OkTrue"
                 THEN [node |-> [self EXCEPT !.children = kids,
                                             !.free_pixels = Sub32(self.free_pixels, 1)],
                       res |-> e.res,
                       ovf |-> e.ovf \/ Underflows(self.free_pixels, 1)]
                 ELSE [node |-> [self EXCEPT !.children = kids],
                       res |-> e.res, ovf |-> e.ovf]

\* the leaf branch of insert: allocate the grid, set one bit
InsertIntoGrid(self, x, y) ==
    LET g == GridBits(self)
        i == (x - self.x) + (y - self.y) * self.width
    IN  IF i \notin g
        THEN [node |-> [self EXCEPT !.grid = <<g \cup {i}>>,
                                    !.free_pixels = Sub32(self.free_pixels, 1)],
              res |-> "OkTrue", ovf |-> Underflows(self.free_pixels, 1)]
        ELSE [node |-> [self EXCEPT !.grid = <<g>>], res |-> "OkFalse", ovf |-> FALSE]

insert(self, x, y) ==
    IF ~InBounds(self, x, y)
    THEN [node |-> self, res |-> "Err", ovf |-> FALSE]
    ELSE IF self.free_pixels = 0
    THEN [node |-> self, res |-> "OkFalse", ovf |-> FALSE]
    ELSE IF self.children # <<>>
    THEN InsertIntoChild(self, x, y)
    ELSE IF ~IsLeafSized(self)
    THEN InsertIntoChild([self EXCEPT !.children = Subdivide(self)], x, y)
    ELSE InsertIntoGrid(self, x, y)

----------------------------------------------------------------------------
(* CollisionTree::check_point                                              *)

RECURSIVE check_point(_, _, _)
check_point(self, x, y) ==
    IF ~InBounds(self, x, y) THEN FALSE
    ELSE IF self.free_pixels = 0 THEN TRUE
    ELSE IF self.grid # <<>>
    THEN ((x - self.x) + (y - self.y) * self.width) \in self.grid[1]
    ELSE \E i \in 1..Len(self.children) : check_point(self.children[i], x, y)

----------------------------------------------------------------------------
(* CollisionTree::insert_rect.  res is "Err" or "Ok", cnt the u32 of Ok.   *)

RECURSIVE insert_rect(_, _, _, _, _)

\* children, created when absent (the three `if self.children.is_none()' blocks)
ChildrenOrNew(self) == IF self.children = <<>> THEN Subdivide(self) ELSE self.children

\* (the results rs of the calls on the children are written <<>> \o [...], which
\* is the same sequence, so that each call is evaluated once)
\* the sum `inserted += change' / `removed += child_removed' over the children
RECURSIVE SumCnt(_, _)
SumCnt(rs, n) == IF n = 0 THEN 0 ELSE Add32(SumCnt(rs, n - 1), rs[n].cnt)

RECURSIVE SumOvf(_, _)
SumOvf(rs, n) ==
    IF n = 0 THEN FALSE
    ELSE SumOvf(rs, n - 1) \/ Overflows(SumCnt(rs, n - 1), rs[n].cnt)

\* lines 460-500: the rectangle covers the node
InsertRectCovered(self, x, y, width, height) ==
    IF IsLeafSized(self)
    THEN [node |-> [self EXCEPT !.free_pixels = 0, !.grid = <<AllBits>>],
          res |-> "Ok", cnt |-> self.free_pixels, ovf |-> FALSE]
    ELSE LET kids == ChildrenOrNew(self)
             rs == <<>> \o [i \in 1..Len(kids) |-> insert_rect(kids[i], x, y, width, height)]
         IN  [node |-> [self EXCEPT !.free_pixels = 0,
                                    !.children = [i \in 1..Len(kids) |-> rs[i].node]],
              res |-> "Ok", cnt |-> self.free_pixels,
              ovf |-> \E i \in 1..Len(kids) : rs[i].ovf]

\* lines 502-521: a leaf-sized node, partly covered
InsertRectGrid(self, x, y, width, height) ==
    LET g == GridBits(self)
        fresh == RectIndices(self, x, y, width, height) \ g
        inserted == Cardinality(fresh)
    IN  [node |-> [self EXCEPT !.grid = <<g \cup fresh>>,
                               !.free_pixels = Sub32(self.free_pixels, inserted)],
         res |-> "Ok", cnt |-> inserted, ovf |-> Underflows(self.free_pixels, inserted)]

\* lines 522-556: a larger node, partly covered
InsertRectChildren(self, x, y, width, height) ==
    LET kids == ChildrenOrNew(self)
        rs == <<>> \o [i \in 1..Len(kids) |->
                 LET r == insert_rect(kids[i], x, y, width, height)
                 IN  IF r.res = "Ok" THEN r ELSE [r EXCEPT !.cnt = 0]]
        inserted == SumCnt(rs, Len(kids))
    IN  [node |-> [self EXCEPT !.children = [i \in 1..Len(kids) |-> rs[i].node],
                               !.free_pixels = Sub32(self.free_pixels, inserted)],
         res |-> "Ok", cnt |-> inserted,
         ovf |-> \/ \E i \in 1..Len(kids) : rs[i].ovf
                 \/ SumOvf(rs, Len(kids))
                 \/ Underflows(self.free_pixels, inserted)]

insert_rect(self, x, y, width, height) ==
    IF NoOverlap(self, x, y, width, height)
    THEN [node |-> self, res |-> "Err", cnt |-> 0, ovf |-> FALSE]
    ELSE IF Covers(self, x, y, width, height)
    THEN InsertRectCovered(self, x, y, width, height)
    ELSE IF IsLeafSized(self)
    THEN InsertRectGrid(self, x, y, width, height)
    ELSE InsertRectChildren(self, x, y, width, height)

----------------------------------------------------------------------------
(* CollisionTree::remove_rect.  empty and cnt are the returned pair.       *)

RECURSIVE remove_rect(_, _, _, _, _)

\* lines 568-576: the rectangle covers the node
RemoveRectCovered(self) ==
    [node |-> [self EXCEPT !.children = <<>>, !.grid = <<>>],
     empty |-> TRUE, cnt |-> Sub32(Area(self), self.free_pixels),
     ovf |-> Underflows(Area(self), self.free_pixels)]

\* RemoveRectGrid without `self.free_pixels += removed'
RemoveRectGrid_KeepsCounter(self, x, y, width, height) ==
    LET g == self.grid[1]
        gone == RectIndices(self, x, y, width, height) \cap g
        removed == Cardinality(gone)
    IN  [node |-> [self EXCEPT !.grid = <<g \ gone>>],
         empty |-> self.free_pixels = Area(self), cnt |-> removed,
         ovf |-> FALSE]

\* lines 577-594: a node with a grid
RemoveRectGrid(self, x, y, width, height) ==
    LET g == self.grid[1]
        gone == RectIndices(self, x, y, width, height) \cap g
        removed == Cardinality(gone)
        free == Add32(self.free_pixels, removed)
    IN  [node |-> [self EXCEPT !.grid = <<g \ gone>>, !.free_pixels = free],
         empty |-> free = Area(self), cnt |-> removed,
         ovf |-> Overflows(self.free_pixels, removed)]

\* lines 595-613: a node without a grid
RemoveRectChildren(self, x, y, width, height) ==
    LET kids == self.children
        rs == <<>> \o [i \in 1..Len(kids) |-> remove_rect(kids[i], x, y, width, height)]
        keep == \E i \in 1..Len(kids) : ~rs[i].empty
        removed == SumCnt(rs, Len(kids))
    IN  [node |-> [self EXCEPT
                     !.children = IF keep THEN [i \in 1..Len(kids) |-> rs[i].node]
                                          ELSE <<>>,
                     !.free_pixels = Add32(self.free_pixels, removed)],
         empty |-> ~keep, cnt |-> removed,
         ovf |-> \/ \E i \in 1..Len(kids) : rs[i].ovf
                 \/ SumOvf(rs, Len(kids))
                 \/ Overflows(self.free_pixels, removed)]

remove_rect(self, x, y, width, height) ==
    IF NoOverlap(self, x, y, width, height)
    THEN [node |-> self, empty |-> FALSE, cnt |-> 0, ovf |-> FALSE]
    ELSE IF Covers(self, x, y, width, height)
    THEN RemoveRectCovered(self)
    ELSE IF self.grid # <<>>
    THEN RemoveRectGrid(self, x, y, width, height)
    ELSE RemoveRectChildren(self, x, y, width, height)

----------------------------------------------------------------------------
(* CollisionTree::check_rect                                               *)

RECURSIVE check_rect(_, _, _, _, _)
check_rect(self, x, y, width, height) ==
    IF NoOverlap(self, x, y, width, height) THEN FALSE
    ELSE IF self.free_pixels = 0 THEN TRUE
    ELSE IF self.free_pixels = Area(self) THEN FALSE
    ELSE IF Covers(self, x, y, width, height) /\ ULt(self.free_pixels, Area(self)) THEN TRUE
    ELSE IF self.grid # <<>>
    THEN RectIndices(self, x, y, width, height) \cap self.grid[1] # {}
    ELSE \E i \in 1..Len(self.children) :
            check_rect(self.children[i], x, y, width, height)

----------------------------------------------------------------------------
(* The state machine: a tree as Scene::new builds it, then any calls.      *)

\* the (width, height) of the trees CollisionTree::new can be asked for: the
\* square one of Scene::new and a taller one
Worlds == { <<WorldWidth, WorldWidth>>, <<WorldWidth, WorldHeight>> }

\* the pixels inside the bounds of a node
Domain(self) ==
    (self.x .. (self.x + self.width - 1)) \X (self.y .. (self.y + self.height - 1))

\* the pixels of a rectangle that lie inside the bounds of a node
RectPixels(self, x, y, width, height) ==
    (Max(self.x, x) .. (Min(self.x + self.width, x + width) - 1))
        \X (Max(self.y, y) .. (Min(self.y + self.height, y + height) - 1))

\* the points tried: the corner, one just right of the middle, the bottom
\* left pixel, and two outside (left of the domain, on its right edge)
PointInputs(t) ==
    { <<t.x, t.y>>,
      <<t.x + t.width \div 2 + 1, t.y>>,
      <<t.x, t.y + t.height - 1>>,
      <<t.x - 1, t.y>>,
      <<t.x + t.width, t.y>> }

\* the rectangles tried: beyond the domain on all sides, beyond the first
\* quadrant, a small one inside, one starting on the right edge, one of
\* width 0, one left of the domain
RectInputs(t) ==
    { <<t.x - 1, t.y - 1, t.width + 2, t.height + 2>>,
      <<t.x, t.y, t.width \div 2 + 3, t.height \div 2 + 3>>,
      <<t.x + 1, t.y + 1, 2, 2>>,
      <<t.x + t.width, t.y, 1, 1>>,
      <<t.x + 1, t.y + 1, 0, 2>>,
      <<t.x - 3, t.y, 2, 2>> }

\* PotionType::Relative(dx, dy) and PotionType::Absolute(x, y); an Option is a
\* sequence of length 0 or 1, and Relative holds its two i32 the same way
Relative(dx, dy) == [kind |-> "Relative", x |-> <<dx>>, y |-> <<dy>>]

Absolute(x, y) == [kind |-> "Absolute", x |-> x, y |-> y]

\* Sprite::new: no timer, nothing pending
NewSprite(x, y, x_scale, y_scale) ==
    [x_scale |-> x_scale, y_scale |-> y_scale, loc |-> <<x, y>>,
     potion_timer |-> <<>>, pending_potions |-> <<>>]

\* Scene::new: no potion, both flags false; the trees are exercised with a
\* character that never drinks
NewBody(is_player, collider) ==
    [is_player |-> is_player, collider |-> collider, velocity |-> <<0, 0>>,
     ground_contact |-> FALSE, jumping |-> FALSE, sleep_timer |-> 0,
     gravity |-> TRUE]

\* the entries of a sequence
Entries(q) == { q[i] : i \in 1 .. Len(q) }

\* Scene::new and the start of main: no sprite in the table, no chunk to add,
\* no step of the cache warmer made
NoScene ==
    [sprites |-> <<>>, characters |-> <<>>, potions |-> <<>>,
     collectables |-> <<>>, particles |-> <<>>, next_id |-> 0,
     collected |-> <<>>, score |-> 0, done |-> FALSE]

\* main before the level is read
NoLocals == [player_id |-> <<>>, setup_end |-> FALSE, camera_scale |-> 1]

NoWarm == [queue |-> <<>>, picked |-> <<>>, removed |-> <<>>, added |-> <<>>]

NoLoop ==
    /\ terrain_chunks = <<>>
    /\ warmed = NoWarm
    /\ scene = NoScene
    /\ locals = NoLocals
    /\ ticks = <<>>

\* Scene::new: no rubble; a sprite at rest that no sweep has moved
NoSweep ==
    /\ rubble_map = New(tree.x, tree.y, tree.width, tree.height)
    /\ rsolid = {}
    /\ body = NewBody(TRUE, {0})
    /\ swept = <<>>

NoCharacter ==
    /\ NoSweep
    /\ sprite = NewSprite(0, 0, 1, 1)
    /\ potions = <<>>
    /\ end_sequence_triggered = FALSE
    /\ final_potion_triggered = FALSE
    /\ hist = <<>>
    /\ foreground_map = New(tree.x, tree.y, tree.width, tree.height)
    /\ fsolid = {}
    /\ particles = <<>>
    /\ tile_queue = <<>>
    /\ NoLoop

NoCall == [op |-> "new", x |-> 0, y |-> 0, width |-> 0, height |-> 0,
           res |-> "Ok", cnt |-> 0, empty |-> FALSE]

\* the state a tree starts in, whatever its bounds
FreshTree ==
    /\ solid = {}
    /\ last = NoCall
    /\ prev = [tree |-> tree, solid |-> solid, last |-> last, before |-> solid]
    /\ nops = 0
    /\ panicked = FALSE
    /\ wrapped = FALSE

Fresh == FreshTree /\ NoCharacter

\* Scene::new: a square world, world_width wide, at (world_min, world_min)
Init ==
    /\ tree = New(0 - WorldOrigin, 0 - WorldOrigin, WorldWidth, WorldWidth)
    /\ Fresh

\* CollisionTree::new with any bounds
InitAnyWorld ==
    /\ tree \in { New(0 - WorldOrigin, 0 - WorldOrigin, d[1], d[2]) : d \in Worlds }
    /\ Fresh

\* what a call leaves behind: it aborts the process at unreachable!() (res
\* "Panic") and, in a build with overflow checks, at a u32 overflow (res
\* "Overflow"); otherwise the overflow wraps
Outcome(node, newSolid, call, abort, ovf) ==
    /\ UNCHANGED sceneVars
    /\ prev' = [tree |-> tree, solid |-> solid, last |-> last, before |-> prev.solid]
    /\ nops' = nops + 1
    /\ \/ /\ abort \/ (ovf /\ ~wrapped)
          /\ panicked' = TRUE
          /\ last' = [call EXCEPT !.res = IF abort THEN "Panic" ELSE "Overflow"]
          /\ UNCHANGED <<tree, solid, wrapped>>
       \/ /\ ~abort
          /\ panicked' = FALSE
          /\ wrapped' = (wrapped \/ ovf)
          /\ tree' = node
          /\ solid' = newSolid
          /\ last' = call

Insert ==
    /\ nops < MaxOps
    /\ ~panicked
    /\ \E p \in PointInputs(tree) :
         LET r == insert(tree, p[1], p[2])
         IN  Outcome(r.node,
                     IF p \in Domain(tree) THEN solid \cup {p} ELSE solid,
                     [op |-> "insert", x |-> p[1], y |-> p[2], width |-> 1,
                      height |-> 1, res |-> r.res, cnt |-> 0, empty |-> FALSE],
                     r.res = "Panic", r.ovf)

InsertRect ==
    /\ nops < MaxOps
    /\ ~panicked
    /\ \E q \in RectInputs(tree) :
         LET r == insert_rect(tree, q[1], q[2], q[3], q[4])
         IN  Outcome(r.node,
                     solid \cup RectPixels(tree, q[1], q[2], q[3], q[4]),
                     [op |-> "insert_rect", x |-> q[1], y |-> q[2], width |-> q[3],
                      height |-> q[4], res |-> r.res, cnt |-> r.cnt, empty |-> FALSE],
                     FALSE, r.ovf)

RemoveRect ==
    /\ nops < MaxOps
    /\ ~panicked
    /\ \E q \in RectInputs(tree) :
         LET r == remove_rect(tree, q[1], q[2], q[3], q[4])
         IN  Outcome(r.node,
                     solid \ RectPixels(tree, q[1], q[2], q[3], q[4]),
                     [op |-> "remove_rect", x |-> q[1], y |-> q[2], width |-> q[3],
                      height |-> q[4], res |-> "Ok", cnt |-> r.cnt, empty |-> r.empty],
                     FALSE, r.ovf)

Clear ==
    /\ nops < MaxOps
    /\ ~panicked
    /\ Outcome(clear(tree), {},
               [NoCall EXCEPT !.op = "clear"], FALSE, FALSE)

Next == Insert \/ InsertRect \/ RemoveRect \/ Clear

Spec == Init /\ [][Next]_vars

SpecAnyWorld == InitAnyWorld /\ [][Next]_vars

----------------------------------------------------------------------------
(* The scenario on a tree over (0, 0, 256, 256): rectangles are inserted   *)
(* into and removed from a fresh tree.                                     *)

\* the rectangles tried: the whole domain, its left, right, upper and lower
\* half, and its first quadrant
ScenarioRects(t) ==
    { <<t.x, t.y, t.width, t.height>>,
      <<t.x, t.y, t.width \div 2, t.height>>,
      <<t.x + t.width \div 2, t.y, t.width \div 2, t.height>>,
      <<t.x, t.y, t.width, t.height \div 2>>,
      <<t.x, t.y + t.height \div 2, t.width, t.height \div 2>>,
      <<t.x, t.y, t.width \div 2, t.height \div 2>> }

\* the halves among them
ScenarioHalves(t) == { q \in ScenarioRects(t) : q[3] * q[4] * 2 = Area(t) }

InitScenario ==
    /\ tree = New(0, 0, 256, 256)
    /\ Fresh

ScenarioInsertRect ==
    /\ nops < ScenarioOps
    /\ ~panicked
    /\ \E q \in ScenarioRects(tree) :
         LET r == insert_rect(tree, q[1], q[2], q[3], q[4])
         IN  Outcome(r.node,
                     solid \cup RectPixels(tree, q[1], q[2], q[3], q[4]),
                     [op |-> "insert_rect", x |-> q[1], y |-> q[2], width |-> q[3],
                      height |-> q[4], res |-> r.res, cnt |-> r.cnt, empty |-> FALSE],
                     FALSE, r.ovf)

ScenarioRemoveRect ==
    /\ nops < ScenarioOps
    /\ ~panicked
    /\ \E q \in ScenarioRects(tree) :
         LET r == remove_rect(tree, q[1], q[2], q[3], q[4])
         IN  Outcome(r.node,
                     solid \ RectPixels(tree, q[1], q[2], q[3], q[4]),
                     [op |-> "remove_rect", x |-> q[1], y |-> q[2], width |-> q[3],
                      height |-> q[4], res |-> "Ok", cnt |-> r.cnt, empty |-> r.empty],
                     FALSE, r.ovf)

NextScenario == ScenarioInsertRect \/ ScenarioRemoveRect

SpecScenario == InitScenario /\ [][NextScenario]_vars

----------------------------------------------------------------------------
(* The scale change of step_physics (lines 1050-1164): potions are drunk,  *)
(* the countdown runs, and at its end the pending potions are applied.     *)
(*                                                                         *)
(* potion_timer is the f32 reached from SCALE_CHANGE_TIMEOUT by            *)
(* subtracting 1.0 / fps once a tick.  The model holds the number v of     *)
(* subtractions still missing to reach 0: the f32 is v / fps plus a        *)
(* rounding error, which at fps = 60.0 is positive and below 1.0 / fps     *)
(* (2.8e-7 after 60 subtractions, when v = 0; -0.9999995 after 120, when   *)
(* v = -fps).  The three comparisons of the code are read accordingly.     *)

FullTimer == SCALE_CHANGE_TIMEOUT * Fps

\* `*time > 0.0' with the comparison the wrong way round
IsPositive_Flipped(v) == v < 0

\* *time > 0.0
IsPositive(v) == v >= 0

\* *timer <= 0.0
IsLapsed(v) == v < 0

\* `*time < -1.0' with the sign of the limit lost
IsOverdue_PlusOne(v) == v > Fps

\* *time < -1.0
IsOverdue(v) == v < 0 - Fps

\* .max(lo).min(hi)
Clamp(v, lo, hi) == Min(Max(v, lo), hi)

\* Drink with the timer set back at every pickup
Drink_Rearms(s, potion_type) ==
    [s EXCEPT !.potion_timer = <<FullTimer>>,
              !.pending_potions = Append(@, potion_type)]

\* lines 1099-1106, for one drinker
Drink(s, potion_type) ==
    LET timer == IF s.potion_timer = <<>> THEN FullTimer ELSE s.potion_timer[1]
    IN  [s EXCEPT !.potion_timer = <<IF IsLapsed(timer) THEN FullTimer ELSE timer>>,
                  !.pending_potions = Append(@, potion_type)]

\* lines 1099-1106, for the first n drinkers
RECURSIVE Drinks(_, _, _)
Drinks(s, drinkers, n) ==
    IF n = 0 THEN s ELSE Drink(Drinks(s, drinkers, n - 1), drinkers[n])

\* lines 1121-1134: one potion applied to the running (x_scale, y_scale)
FoldOne(acc, potion) ==
    IF potion.kind = "Relative"
    THEN <<acc[1] + potion.x[1], acc[2] + potion.y[1]>>
    ELSE <<IF potion.x # <<>> THEN potion.x[1] ELSE acc[1],
           IF potion.y # <<>> THEN potion.y[1] ELSE acc[2]>>

\* the pending potions applied last to first
RECURSIVE Fold_Reversed(_, _, _, _)
Fold_Reversed(pending, n, x_scale, y_scale) ==
    IF n = 0 THEN <<x_scale, y_scale>>
    ELSE FoldOne(Fold_Reversed(pending, n - 1, x_scale, y_scale),
                 pending[Len(pending) - n + 1])

\* lines 1118-1135: the first n pending potions applied in turn
RECURSIVE Fold(_, _, _, _)
Fold(pending, n, x_scale, y_scale) ==
    IF n = 0 THEN <<x_scale, y_scale>>
    ELSE FoldOne(Fold(pending, n - 1, x_scale, y_scale), pending[n])

\* Rescale with the lower limit of the deltas (0) used for the scale as well
Rescale_FloorZero(s, x_delta, y_delta) ==
    LET initial_width == SPRITE_WIDTH * s.x_scale
        initial_height == SPRITE_WIDTH * s.y_scale
        x_scale == Clamp(s.x_scale + x_delta, 0, MAX_SCALE)
        y_scale == Clamp(s.y_scale + y_delta, 0, MAX_SCALE)
    IN  [s EXCEPT !.x_scale = x_scale,
                  !.y_scale = y_scale,
                  !.loc = <<@[1] - (SPRITE_WIDTH * x_scale - initial_width) \div 2,
                            @[2] - (SPRITE_WIDTH * y_scale - initial_height) - 8>>]

\* lines 1149-1164: the new scale and the new position
Rescale(s, x_delta, y_delta) ==
    LET initial_width == SPRITE_WIDTH * s.x_scale
        initial_height == SPRITE_WIDTH * s.y_scale
        x_scale == Clamp(s.x_scale + x_delta, 1, MAX_SCALE)
        y_scale == Clamp(s.y_scale + y_delta, 1, MAX_SCALE)
    IN  [s EXCEPT !.x_scale = x_scale,
                  !.y_scale = y_scale,
                  !.loc = <<@[1] - (SPRITE_WIDTH * x_scale - initial_width) \div 2,
                            @[2] - (SPRITE_WIDTH * y_scale - initial_height) - 8>>]

\* the delta taken from the pending potions also under the final flag
Delta_FinalFolds(final, folded, scale) == Clamp(folded, 0, MAX_SCALE) - scale

\* lines 1140-1148: x_delta and y_delta
Delta(final, folded, scale) ==
    IF final THEN 20 ELSE Clamp(folded, 0, MAX_SCALE) - scale

\* lines 1108-1164 for the character: the sprite and the final flag it leaves,
\* whether the countdown was over, the folded scale, whether it was applied
Countdown(s, end_sequence, final) ==
    LET idle == [sprite |-> s, final |-> final, expired |-> FALSE,
                 folded |-> <<s.x_scale, s.y_scale>>, applied |-> FALSE,
                 x_delta |-> 0, y_delta |-> 0]
    IN  IF s.potion_timer = <<>> THEN idle
        ELSE LET time == s.potion_timer[1] - 1
             IN  IF IsPositive(time) /\ ~final
                 THEN [idle EXCEPT !.sprite.potion_timer = <<time>>]
                 ELSE LET folded == Fold(s.pending_potions, Len(s.pending_potions),
                                         s.x_scale, s.y_scale)
                          nowFinal == final \/ end_sequence
                          x_delta == Delta(nowFinal, folded[1], s.x_scale)
                          y_delta == Delta(nowFinal, folded[2], s.y_scale)
                          drained == [s EXCEPT
                                        !.potion_timer = IF IsOverdue(time) THEN <<>>
                                                         ELSE <<time>>,
                                        !.pending_potions = <<>>]
                          applied == ~(x_delta = 0 /\ y_delta = 0)
                     IN  [sprite |-> IF applied THEN Rescale(drained, x_delta, y_delta)
                                     ELSE drained,
                          final |-> nowFinal, expired |-> TRUE,
                          folded |-> folded, applied |-> applied,
                          x_delta |-> x_delta, y_delta |-> y_delta]

\* the elements of seq at the indices in S, in the order of seq
RECURSIVE Picked(_, _, _)
Picked(seq, S, n) ==
    IF n = 0 THEN <<>>
    ELSE IF n \in S THEN Append(Picked(seq, S, n - 1), seq[n])
    ELSE Picked(seq, S, n - 1)

\* the end sequence without the change of the potions left
EndSequence_KeepsEffects(left, start_end) == left

\* lines 1085-1090: the potions left when a potion that starts the end
\* sequence was among those consumed
EndSequence(left, start_end) ==
    IF start_end
    THEN [i \in 1 .. Len(left) |-> [left[i] EXCEPT !.type = Relative(10, 10)]]
    ELSE left

\* a / b of i32, which rounds towards zero (b > 0)
TruncDiv(a, b) == IF a >= 0 THEN a \div b ELSE 0 - ((0 - a) \div b)

\* lines 389-402: insert_rect for the solid cells lo .. hi of a collider, in
\* turn, after what acc holds; the result of each call is dropped
RECURSIVE AddCells(_, _, _, _, _)
AddCells(acc, s, cells, lo, hi) ==
    IF lo > hi THEN acc
    ELSE IF lo = hi
    THEN LET r == insert_rect(acc.node,
                              cells[lo][1] * s.x_scale + s.loc[1],
                              cells[lo][2] * s.y_scale + s.loc[2],
                              s.x_scale, s.y_scale)
         IN  [node |-> r.node, ovf |-> acc.ovf \/ r.ovf]
    ELSE LET mid == (lo + hi) \div 2
         IN  CHOOSE r \in { AddCells(half, s, cells, mid + 1, hi) :
                            half \in {AddCells(acc, s, cells, lo, mid)} } : TRUE

\* the solid cells (x, y) of a collider, in the order add_sprite visits them
ColliderCells(collider) ==
    LET all == [i \in 1 .. SPRITE_WIDTH * SPRITE_WIDTH |->
                  <<(i - 1) \div SPRITE_WIDTH, (i - 1) % SPRITE_WIDTH>>]
    IN  SelectSeq(all, LAMBDA c : (c[1] + c[2] * SPRITE_WIDTH) \in collider)

\* CollisionTree::add_sprite
add_sprite(self, s) ==
    LET cells == ColliderCells(s.collider)
    IN  AddCells([node |-> self, ovf |-> FALSE], s, cells, 1, Len(cells))

\* the pixels of the map a sprite's solid cells cover
SpritePixels(self, s) ==
    UNION { RectPixels(self, c[1] * s.x_scale + s.loc[1], c[2] * s.y_scale + s.loc[2],
                       s.x_scale, s.y_scale) :
            c \in { <<i % SPRITE_WIDTH, i \div SPRITE_WIDTH>> : i \in s.collider } }

\* the range lo .. hi of Rust (hi excluded), as a sequence
Range(lo, hi) == [i \in 1 .. (hi - lo) |-> lo + i - 1]

\* the d of lo .. hi (hi excluded) for which the side from origin + d * scale,
\* scale long, passes the two tests NoOverlap makes on an axis of a map that
\* starts at mlo and is mlen long: an interval, since the side moves with d
Near(lo, hi, origin, scale, mlo, mlen) ==
    Range(Max(lo, ((mlo - origin - scale) \div scale) + 1),
          Min(hi, ((mlo + mlen - origin) \div scale) + 1))

\* `shape' of lines 1168-1176, in its order, without the cells whose
\* rectangle both remove_rect leave at their first test (NoOverlap; the two
\* maps have the same bounds); what is left of it is the same for the maps
Shape(s, map) ==
    LET xsq == Near(0, SPRITE_WIDTH, s.loc[1], s.x_scale, map.x, map.width)
        ysq == IF s.y_scale < MAX_SCALE
               THEN Near(0 - 1, SPRITE_WIDTH - 1, s.loc[2], s.y_scale,
                         map.y, map.height)
               ELSE Near(0 - SPRITE_WIDTH * 10, SPRITE_WIDTH, s.loc[2], s.y_scale,
                         map.y, map.height)
        n == Len(xsq) * Len(ysq)
    IN  IF s.y_scale < MAX_SCALE
        THEN <<>> \o [k \in 1 .. n |-> <<xsq[((k - 1) \div Len(ysq)) + 1],
                                         ysq[((k - 1) % Len(ysq)) + 1]>>]
        ELSE <<>> \o [k \in 1 .. n |-> <<xsq[((k - 1) % Len(xsq)) + 1],
                                         ysq[((k - 1) \div Len(xsq)) + 1]>>]

\* the centre of the carve (cx, cy)
CarveCentre(s) ==
    <<s.loc[1] + (SPRITE_WIDTH * s.x_scale) \div 2,
      s.loc[2] + (SPRITE_WIDTH * s.y_scale) \div 2>>

\* lines 1181-1184: the corner (x, y) of a cell is nearer to the centre than
\* half the longer side of the sprite
InCircle(s, x, y) ==
    LET c == CarveCentre(s)
        r == (SPRITE_WIDTH * Max(s.x_scale, s.y_scale)) \div 2
        ax == IF x >= c[1] THEN x - c[1] ELSE c[1] - x
        ay == IF y >= c[2] THEN y - c[2] ELSE c[2] - y
    IN  /\ ax < r
        /\ ay < r
        /\ ax * ax + ay * ay < r * r

\* IndexSet::insert: at the end, unless the set holds the entry
Enqueue(q, e) == IF e \in Entries(q) THEN q ELSE Append(q, e)

\* insert for the first n entries of es, in turn
RECURSIVE EnqueueAll(_, _, _)
EnqueueAll(q, es, n) ==
    IF n = 0 THEN q ELSE Enqueue(EnqueueAll(q, es, n - 1), es[n])

\* the tiles of a set in the order two nested loops visit them, xx the
\* outer and yy the inner
RECURSIVE InLoopOrder(_)
InLoopOrder(tiles) ==
    IF tiles = {} THEN <<>>
    ELSE LET first == CHOOSE t \in tiles :
                        \A u \in tiles : t[2] < u[2] \/ (t[2] = u[2] /\ t[3] <= u[3])
         IN  <<first>> \o InLoopOrder(tiles \ {first})

\* lines 1192-1204: the tiles of the foreground layer a cell enqueues
ForegroundTiles(x, y, x_scale, y_scale) ==
    { <<2, xx, yy>> :
        xx \in TruncDiv(x, TILE_SIZE) .. (TruncDiv(x + x_scale, TILE_SIZE) - 1),
        yy \in TruncDiv(y, TILE_SIZE) .. (TruncDiv(y + y_scale, TILE_SIZE) - 1) }

\* lines 1235-1249: the tiles of the terrain layer a cell enqueues
TerrainTiles(x, y, x_scale, y_scale) ==
    { <<1, xx, yy>> :
        xx \in TruncDiv(x, TILE_SIZE) .. TruncDiv(x + x_scale, TILE_SIZE),
        yy \in TruncDiv(y, TILE_SIZE) .. TruncDiv(y + y_scale, TILE_SIZE) }

\* lines 1230-1232: the direction of (a.cos() * -0.5, a.sin() * -0.5) with
\* a = (cy - y).atan2(cx - x); atan2(0, 0) is 0
DebrisVelocity(s, x, y) ==
    LET c == CarveCentre(s)
    IN  IF x = c[1] /\ y = c[2] THEN <<0 - 1, 0>>
        ELSE <<0 - (c[1] - x), 0 - (c[2] - y)>>

\* lines 1219-1234: the debris of a cell
Debris(s, x, y) ==
    [loc |-> <<x, y>>, x_scale |-> s.x_scale, y_scale |-> s.y_scale,
     velocity |-> DebrisVelocity(s, x, y)]

\* what the carves of a tick have done so far: the two maps and their
\* references, the particles to add (new_sprites), the length of
\* self.particles, the tiles enqueued, whether a u32 operation left its range,
\* and a record for each cell inside the circle that held a pixel of a map or
\* had one counted as removed
NoCarve ==
    [foreground_map |-> foreground_map, fsolid |-> fsolid,
     collision_map |-> tree, solid |-> solid,
     new_sprites |-> <<>>, live |-> Len(particles),
     tiles |-> <<>>, ovf |-> FALSE, cells |-> <<>>]

\* Spawns without the limit of line 1219
Spawns_NoCap(cnt, spawned, live) == cnt # 0

\* lines 1213-1219: a cell with cnt pixels of terrain removed spawns a debris
\* when spawned sprites are waiting in new_sprites and live particles exist
Spawns(cnt, spawned, live) ==
    /\ cnt # 0
    /\ spawned + live < ParticleCap

\* lines 1179-1258: one cell (dx, dy) of the shape
CarveCell(acc, s, cell) ==
    LET x == s.loc[1] + cell[1] * s.x_scale
        y == s.loc[2] + cell[2] * s.y_scale
        f == remove_rect(acc.foreground_map, x, y, s.x_scale, s.y_scale)
        m == remove_rect(acc.collision_map, x, y, s.x_scale, s.y_scale)
        inside == [p \in Int \X Int |->
                     /\ x <= p[1] /\ p[1] < x + s.x_scale
                     /\ y <= p[2] /\ p[2] < y + s.y_scale]
        spawn == Spawns(m.cnt, Len(acc.new_sprites), acc.live)
        fhad == \E p \in acc.fsolid : inside[p]
        had == \E p \in acc.solid : inside[p]
        ftiles == IF f.cnt # 0 THEN ForegroundTiles(x, y, s.x_scale, s.y_scale) ELSE {}
        mtiles == IF m.cnt # 0 THEN TerrainTiles(x, y, s.x_scale, s.y_scale) ELSE {}
    IN  IF ~InCircle(s, x, y) THEN acc
        ELSE [foreground_map |-> f.node, fsolid |-> {p \in acc.fsolid : ~inside[p]},
              collision_map |-> m.node, solid |-> {p \in acc.solid : ~inside[p]},
              live |-> acc.live,
              new_sprites |-> IF spawn THEN Append(acc.new_sprites, Debris(s, x, y))
                              ELSE acc.new_sprites,
              tiles |-> acc.tiles \o InLoopOrder(ftiles) \o InLoopOrder(mtiles),
              ovf |-> acc.ovf \/ f.ovf \/ m.ovf,
              cells |-> IF f.cnt = 0 /\ m.cnt = 0 /\ ~fhad /\ ~had THEN acc.cells
                        ELSE Append(acc.cells,
                               [x |-> x, y |-> y,
                                width |-> s.x_scale, height |-> s.y_scale,
                                fcnt |-> f.cnt, cnt |-> m.cnt,
                                fhad |-> fhad, had |-> had,
                                spawned |-> spawn, tiles |-> ftiles \cup mtiles])]

\* the cells lo .. hi of the shape, in turn, after what acc holds
RECURSIVE CarveCells(_, _, _, _, _)
CarveCells(acc, s, shape, lo, hi) ==
    IF lo > hi THEN acc
    ELSE IF lo = hi THEN CarveCell(acc, s, shape[lo])
    ELSE LET mid == (lo + hi) \div 2
         IN  CHOOSE r \in { CarveCells(half, s, shape, mid + 1, hi) :
                            half \in {CarveCells(acc, s, shape, lo, mid)} } : TRUE

\* lines 1165-1261: the carve after a change of scale, after what acc holds
\* of the carves made for the characters before this one
Carve(acc, s, x_delta, y_delta) ==
    IF x_delta > 0 \/ y_delta > 0
    THEN LET shape == Shape(s, acc.collision_map)
         IN  CarveCells(acc, s, shape, 1, Len(shape))
    ELSE acc

\* the potions of the level, as (type, end): the two of the scenario, one that
\* sets x_scale, one that shrinks below 1, and the one that starts the end
LevelPotions ==
    << [type |-> Relative(10, 10), end |-> FALSE],
       [type |-> Relative(5, 0), end |-> FALSE],
       [type |-> Absolute(<<2>>, <<>>), end |-> FALSE],
       [type |-> Relative(0 - 20, 0 - 20), end |-> FALSE],
       [type |-> Relative(1, 1), end |-> TRUE] >>

\* the scales the character starts with
LevelScales == {1, MAX_SCALE - 10, MAX_SCALE}

\* a level with one character and the potions above
InitScene ==
    /\ tree = New(0 - WorldOrigin, 0 - WorldOrigin, WorldWidth, WorldWidth)
    /\ FreshTree
    /\ sprite \in { NewSprite(0, 0, sc, sc) : sc \in LevelScales }
    /\ potions = LevelPotions
    /\ end_sequence_triggered = FALSE
    /\ final_potion_triggered = FALSE
    /\ hist = <<>>
    /\ foreground_map = New(tree.x, tree.y, tree.width, tree.height)
    /\ fsolid = {}
    /\ particles = <<>>
    /\ tile_queue = <<>>
    /\ NoLoop
    /\ NoSweep

\* one tick: the character overlaps the potions at the indices in consumed
StepPhysics ==
    /\ Len(hist) < MaxTicks
    /\ ~panicked
    /\ \E consumed \in SUBSET (1 .. Len(potions)) :
         /\ Cardinality(consumed) <= MaxDrinks
         /\ LET drinkers == [i \in 1 .. Cardinality(consumed) |->
                               Picked(potions, consumed, Len(potions))[i].type]
                start_end == \E i \in consumed : potions[i].end
                left == Picked(potions, (1 .. Len(potions)) \ consumed, Len(potions))
                drunk == Drinks(sprite, drinkers, Len(drinkers))
                r == Countdown(drunk, end_sequence_triggered \/ start_end,
                               final_potion_triggered)
            IN  \E c \in { IF r.applied THEN Carve(NoCarve, r.sprite, r.x_delta, r.y_delta)
                           ELSE NoCarve } :
                /\ potions' = EndSequence(left, start_end)
                /\ end_sequence_triggered' = (end_sequence_triggered \/ start_end)
                /\ final_potion_triggered' = r.final
                /\ sprite' = r.sprite
                /\ hist' = Append(hist,
                             [before |-> sprite, drunk |-> drinkers,
                              armed |-> drunk.potion_timer,
                              queued |-> drunk.pending_potions,
                              expired |-> r.expired, folded |-> r.folded,
                              applied |-> r.applied, final |-> r.final,
                              after |-> r.sprite,
                              potions |-> potions, consumed |-> consumed,
                              start_end |-> start_end,
                              end |-> (end_sequence_triggered \/ start_end),
                              live |-> EndSequence(left, start_end),
                              carved |-> r.applied /\ (r.x_delta > 0 \/ r.y_delta > 0),
                              cells |-> c.cells,
                              particles |-> Len(particles),
                              new_sprites |-> c.new_sprites])
                /\ foreground_map' = c.foreground_map
                /\ fsolid' = c.fsolid
                /\ tree' = c.collision_map
                /\ solid' = c.solid
                /\ particles' = particles \o c.new_sprites
                /\ tile_queue' = EnqueueAll(tile_queue, c.tiles, Len(c.tiles))
                /\ wrapped' = (wrapped \/ c.ovf)
                /\ panicked' \in (IF c.ovf /\ ~wrapped THEN BOOLEAN ELSE {FALSE})
    /\ UNCHANGED <<last, prev, nops, sweepVars, loopVars>>

NextScene == StepPhysics

SpecScene == InitScene /\ [][NextScene]_vars

\* a terrain or foreground sprite of the map: every cell of its collider solid
Block(x, y, scale) ==
    [collider |-> 0 .. (SPRITE_WIDTH * SPRITE_WIDTH - 1), loc |-> <<x, y>>,
     x_scale |-> scale, y_scale |-> scale]

\* the terrain of the level: one block over most of the world, or a smaller
\* one across the middle of it
LevelTerrain == { Block(0, 0, 4), Block(16, 16, 2) }

\* the foreground of the level
LevelForeground == Block(8, 8, 3)

\* the potions of the level with terrain: the growth of the scenario twice,
\* and the potion that starts the end sequence
CarvePotions ==
    << [type |-> Relative(10, 10), end |-> FALSE],
       [type |-> Relative(10, 10), end |-> FALSE],
       [type |-> Relative(1, 1), end |-> TRUE] >>

\* the particles alive when the level is entered: none, or two short of
\* the limit
LevelParticles ==
    { <<>>, [i \in 1 .. (ParticleCap - 2) |-> Debris(NewSprite(0, 0, 1, 1), 0, 0)] }

\* the scale of the tall character
TallScale == MAX_SCALE - 20

\* the character of the level: a small one, or a tall one with its feet at
\* y = 52, both inside the world
CarveStarts ==
    { NewSprite(24, 40, 1, 1),
      NewSprite(4 - (SPRITE_WIDTH * TallScale) \div 2, 52 - SPRITE_WIDTH * TallScale,
                TallScale, TallScale) }

\* a level with terrain (add_terrain), foreground (add_foreground), one
\* character and the potions above, after its tiles have been drawn
InitCarve ==
    /\ \E b \in LevelTerrain :
         LET world == New(0 - WorldOrigin, 0 - WorldOrigin, WorldWidth, WorldWidth)
         IN  /\ tree = add_sprite(world, b).node
             /\ solid = SpritePixels(world, b)
             /\ foreground_map = add_sprite(world, LevelForeground).node
             /\ fsolid = SpritePixels(world, LevelForeground)
    /\ last = NoCall
    /\ prev = [tree |-> tree, solid |-> solid, last |-> last, before |-> solid]
    /\ nops = 0
    /\ panicked = FALSE
    /\ wrapped = FALSE
    /\ sprite \in CarveStarts
    /\ potions = CarvePotions
    /\ end_sequence_triggered = FALSE
    /\ final_potion_triggered = FALSE
    /\ hist = <<>>
    /\ particles \in LevelParticles
    /\ tile_queue = <<>>
    /\ NoLoop
    /\ NoSweep

NextCarve == StepPhysics

SpecCarve == InitCarve /\ [][NextCarve]_vars

----------------------------------------------------------------------------
(* The sweep of step_physics (lines 864-1005) for one sprite, after the    *)
(* input of the frame (lines 1850-1935).  velocity is the f32 pair in      *)
(* units of 0.1 / fps, in which every amount the code adds is whole; loc   *)
(* stays whole since every step is 1.0.                                    *)

\* 1.0 in the units of velocity
VelocityUnit == 10 * Fps

\* (velocity * scale as f32) as i32
Pixels(v, scale) == TruncDiv(v * scale, VelocityUnit)

\* 1.0 with the sign of v (copysign)
StepOf(v) == IF v < 0 THEN 0 - 1 ELSE 1

Abs(v) == IF v < 0 THEN 0 - v ELSE v

\* lines 902-934: the cells of the collider tested at a candidate position, in
\* the order of the loops, up to the first one that terrain blocks; a cell
\* in rubble is not tested against the terrain
Probe(s, b, loc, rubble, terrain) ==
    LET cells == ColliderCells(b.collider)
        InRubble == <<>> \o [i \in 1 .. Len(cells) |->
                      check_rect(rubble, loc[1] + cells[i][1] * s.x_scale,
                                 loc[2] + cells[i][2] * s.y_scale,
                                 s.x_scale, s.y_scale)]
        stops == { i \in 1 .. Len(cells) :
                     /\ ~InRubble[i]
                     /\ check_rect(terrain, loc[1] + cells[i][1] * s.x_scale,
                                   loc[2] + cells[i][2] * s.y_scale,
                                   s.x_scale, s.y_scale) }
        first == IF stops = {} THEN Len(cells) + 1
                 ELSE CHOOSE i \in stops : \A j \in stops : i <= j
    IN  [blocked |-> stops # {},
         in_rubble |-> \E i \in 1 .. (first - 1) : InRubble[i]]

\* the loop of the sweep with the test of the candidate left out: every
\* candidate is committed
RECURSIVE Steps_NoTest(_, _, _, _, _, _, _, _)
Steps_NoTest(st, s, b, axis, dir, n, rubble, terrain) ==
    IF n = 0 THEN st
    ELSE IF n = 1
    THEN LET cand == IF axis = 2 THEN <<st.loc[1], st.loc[2] + dir>>
                     ELSE <<st.loc[1] + dir, st.loc[2]>>
         IN  [st EXCEPT !.loc = cand, !.commits = Append(@, cand)]
    ELSE CHOOSE r \in { Steps_NoTest(half, s, b, axis, dir, n - n \div 2, rubble, terrain) :
                        half \in { Steps_NoTest(st, s, b, axis, dir, n \div 2,
                                                 rubble, terrain) } } : TRUE

\* lines 896-938: the loop `outer of one pass, n steps of dir along axis (1 is
\* x, 2 is y) still to make, unless it was left (break 'outer); st holds loc,
\* whether the pass was blocked, in_rubble, the candidates committed and the
\* candidate that was blocked
RECURSIVE Steps(_, _, _, _, _, _, _, _)
Steps(st, s, b, axis, dir, n, rubble, terrain) ==
    IF n = 0 \/ st.blocked THEN st
    ELSE IF n = 1
    THEN LET cand == IF axis = 2 THEN <<st.loc[1], st.loc[2] + dir>>
                     ELSE <<st.loc[1] + dir, st.loc[2]>>
             p == Probe(s, b, cand, rubble, terrain)
         IN  IF p.blocked
             THEN [st EXCEPT !.blocked = TRUE, !.in_rubble = @ \/ p.in_rubble,
                             !.tried = <<cand>>]
             ELSE [st EXCEPT !.loc = cand, !.in_rubble = @ \/ p.in_rubble,
                             !.commits = Append(@, cand)]
    ELSE CHOOSE r \in { Steps(half, s, b, axis, dir, n - n \div 2, rubble, terrain) :
                        half \in { Steps(st, s, b, axis, dir, n \div 2,
                                          rubble, terrain) } } : TRUE

\* one pass of lines 877-939 from loc
Pass(loc, in_rubble, s, b, axis, v, rubble, terrain) ==
    Steps([loc |-> loc, blocked |-> FALSE, in_rubble |-> in_rubble,
           commits |-> <<>>, tried |-> <<>>],
          s, b, axis, StepOf(b.velocity[axis]), Abs(v), rubble, terrain)

\* lines 967-1004: the push out of the terrain, for the player
Escape(s, b, loc, rubble, terrain) ==
    LET cells == ColliderCells(b.collider)
        stuck == { i \in 1 .. Len(cells) :
                     /\ ~check_rect(rubble, loc[1] + cells[i][1] * s.x_scale,
                                    loc[2] + cells[i][2] * s.y_scale,
                                    s.x_scale, s.y_scale)
                     /\ check_rect(terrain, loc[1] + cells[i][1] * s.x_scale,
                                   loc[2] + cells[i][2] * s.y_scale,
                                   s.x_scale, s.y_scale) }
        x_dir == Cardinality({ i \in stuck : cells[i][1] <= SPRITE_WIDTH \div 2 })
                   - Cardinality({ i \in stuck : cells[i][1] > SPRITE_WIDTH \div 2 })
        y_dir == Cardinality({ i \in stuck : cells[i][2] <= SPRITE_WIDTH \div 2 })
                   - Cardinality({ i \in stuck : cells[i][2] > SPRITE_WIDTH \div 2 })
    IN  <<loc[1] + Clamp(x_dir, 0 - 1, 1) * s.x_scale,
          loc[2] + Clamp(y_dir, 0 - 1, 1) * s.y_scale>>

\* line 941
ClearsRubble(is_player, in_rubble) == is_player /\ ~in_rubble

\* Landed without `sprite.ground_contact = false'
Landed_KeepsContact(b, blocked_y, falling) ==
    IF ~blocked_y
    THEN b
    ELSE [b EXCEPT !.ground_contact = IF falling THEN TRUE ELSE @,
                   !.jumping = IF falling THEN FALSE ELSE @,
                   !.velocity[2] = 0]

\* Landed without `sprite.velocity.y = 0.0'
Landed_KeepsVelocity(b, blocked_y, falling) ==
    IF ~blocked_y
    THEN [b EXCEPT !.ground_contact = IF Abs(b.velocity[2]) >= VelocityUnit
                                      THEN FALSE ELSE @]
    ELSE [b EXCEPT !.ground_contact = IF falling THEN TRUE ELSE @,
                   !.jumping = IF falling THEN FALSE ELSE @]

\* lines 944-954
Landed(b, blocked_y, falling) ==
    IF ~blocked_y
    THEN [b EXCEPT !.ground_contact = IF Abs(b.velocity[2]) >= VelocityUnit
                                      THEN FALSE ELSE @]
    ELSE [b EXCEPT !.ground_contact = IF falling THEN TRUE ELSE @,
                   !.jumping = IF falling THEN FALSE ELSE @,
                   !.velocity[2] = 0]

\* lines 955-961
Friction(b) ==
    IF ~b.ground_contact THEN b
    ELSE IF b.velocity[1] >= 0
    THEN [b EXCEPT !.velocity[1] = Max(@ - FrictionUnits, 0)]
    ELSE [b EXCEPT !.velocity[1] = Min(@ + FrictionUnits, 0)]

\* lines 962-966
Sleep(b) ==
    IF Abs(b.velocity[1]) > VelocityUnit \/ Abs(b.velocity[2]) > VelocityUnit
    THEN [b EXCEPT !.sleep_timer = 0]
    ELSE [b EXCEPT !.sleep_timer = @ + 1]

\* lines 1850-1935: what the frame's input does to the player before the
\* tick (no key, the key to the right, or the key to jump); a sprite that is
\* not the player has no input
Inputs == {"none", "right", "jump"}

Input(b, key) ==
    IF ~b.is_player THEN b
    ELSE [b EXCEPT
            !.velocity[1] = IF key = "right" THEN WalkUnits ELSE 0,
            !.velocity[2] = IF key = "jump" /\ b.ground_contact
                            THEN 0 - JumpUnits ELSE @,
            !.jumping = IF key = "jump" /\ b.ground_contact THEN TRUE ELSE @]

\* lines 869-1005 for the sprite, with the rubble map as the loop finds it
\* (the sweep of the player may have cleared it) and the collision map
Sweep(s, b0, rubble_before, terrain) ==
    LET b == IF b0.gravity THEN [b0 EXCEPT !.velocity[2] = @ + GravityUnits] ELSE b0
        falling == b.velocity[2] > 0
        vy == Pixels(b.velocity[2], s.y_scale)
        vx == Pixels(b.velocity[1], s.x_scale)
        py == Pass(s.loc, FALSE, s, b, 2, vy, rubble_before, terrain)
        px == Pass(py.loc, py.in_rubble, s, b, 1, vx, rubble_before, terrain)
        cleared == ClearsRubble(b.is_player, px.in_rubble)
        rubble == IF cleared THEN clear(rubble_before) ELSE rubble_before
        after == Sleep(Friction(Landed(b, py.blocked, falling)))
        loc == IF b.is_player THEN Escape(s, b, px.loc, rubble, terrain) ELSE px.loc
    IN  [loc |-> loc, body |-> after, rubble_map |-> rubble, cleared |-> cleared,
         vy |-> vy, vx |-> vx, falling |-> falling,
         ypass |-> py, xpass |-> px, swept_to |-> px.loc]

\* lines 1021-1030: the pixels of a settled particle go into a map one by one
RECURSIVE Settle(_, _, _, _, _, _)
Settle(map, x, y, width, height, n) ==
    IF n = 0 THEN map
    ELSE insert(Settle(map, x, y, width, height, n - 1),
                x + ((n - 1) \div height), y + ((n - 1) % height)).node

\* the terrain of the level of the sweep: one block
SweepTerrain == Block(16, 40, 1)

\* the rubble of the level: none, or a particle that has settled on the block
SweepRubble == { <<20, 36, 0, 0>>, <<20, 36, 4, 4>> }

\* the sprite of the level: the player or another sprite, with a collider
\* of two by two cells, at rest one scaled pixel above the block, left of the
\* rubble or with its right column over it
SweepStarts == { NewSprite(x, 40 - 3 * sc, sc, sc) : x \in {18, 19}, sc \in {1, 2} }

InitSweep ==
    /\ \E r \in SweepRubble :
         LET world == New(0 - WorldOrigin, 0 - WorldOrigin, WorldWidth, WorldWidth)
             terrain == add_sprite(world, SweepTerrain).node
         IN  /\ tree = Settle(terrain, r[1], r[2], r[3], r[4], r[3] * r[4])
             /\ solid = SpritePixels(world, SweepTerrain)
                          \cup RectPixels(world, r[1], r[2], r[3], r[4])
             /\ rubble_map = Settle(world, r[1], r[2], r[3], r[4], r[3] * r[4])
             /\ rsolid = RectPixels(world, r[1], r[2], r[3], r[4])
             /\ foreground_map = world
    /\ fsolid = {}
    /\ last = NoCall
    /\ prev = [tree |-> tree, solid |-> solid, last |-> last, before |-> solid]
    /\ nops = 0
    /\ panicked = FALSE
    /\ wrapped = FALSE
    /\ sprite \in SweepStarts
    /\ body \in { NewBody(p, {0, 1, SPRITE_WIDTH, SPRITE_WIDTH + 1}) : p \in BOOLEAN }
    /\ swept = <<>>
    /\ potions = <<>>
    /\ end_sequence_triggered = FALSE
    /\ final_potion_triggered = FALSE
    /\ hist = <<>>
    /\ particles = <<>>
    /\ tile_queue = <<>>
    /\ NoLoop

\* one frame for a level without potions: the input, then the sweep; the
\* rest of the tick (lines 1007-1270) finds no particle, no potion and no
\* timer and changes nothing
StepSweep ==
    /\ Len(swept) < MaxSweeps
    /\ ~panicked
    /\ potions = <<>>
    /\ sprite.potion_timer = <<>>
    /\ \E key \in (IF body.is_player THEN Inputs ELSE {"none"}) :
         \E r \in { Sweep(sprite, Input(body, key), rubble_map, tree) } :
            /\ sprite' = [sprite EXCEPT !.loc = r.loc]
            /\ body' = r.body
            /\ rubble_map' = r.rubble_map
            /\ rsolid' = IF r.cleared THEN {} ELSE rsolid
            /\ swept' = Append(swept,
                          [key |-> key, before |-> sprite.loc, body |-> body,
                           rsolid |-> rsolid, vy |-> r.vy, vx |-> r.vx,
                           falling |-> r.falling,
                           ypass |-> r.ypass, xpass |-> r.xpass,
                           swept_to |-> r.swept_to, cleared |-> r.cleared,
                           after |-> r.loc, landed |-> r.body])
    /\ UNCHANGED <<tree, solid, last, prev, nops, panicked, wrapped,
                   potions, end_sequence_triggered, final_potion_triggered, hist,
                   foreground_map, fsolid, particles, tile_queue, loopVars>>

NextSweep == StepSweep

SpecSweep == InitSweep /\ [][NextSweep]_vars

----------------------------------------------------------------------------
(* step_cache_warmer (lines 1742-1813), called once in each turn of the    *)
(* loop of main: it adds the chunks of the level still waiting, then       *)
(* redraws tiles of the queue.  The player is `sprite'.                    *)

\* lines 1730 and 1987: camera_scale, once it has come to rest on the scale
\* of the player
CameraScale(s) == Max(s.x_scale, s.y_scale)

\* the square of the distance, in pixels, from the player to the corner of a
\* tile (x, y) or to a point
Distance2(loc, x, y) ==
    (loc[1] - x) * (loc[1] - x) + (loc[2] - y) * (loc[2] - y)

\* lines 1746: sort_by_key on the distance to the player, which keeps the
\* order of chunks equally far: the first n chunks, sorted
RECURSIVE SortChunks(_, _, _)
SortChunks(chunks, loc, n) ==
    IF n = 0 THEN <<>>
    ELSE LET sorted == SortChunks(chunks, loc, n - 1)
             c == chunks[n]
             d == Distance2(loc, c.sprite.loc[1], c.sprite.loc[2])
             k == Cardinality({ i \in 1 .. Len(sorted) :
                     Distance2(loc, sorted[i].sprite.loc[1], sorted[i].sprite.loc[2]) <= d })
         IN  SubSeq(sorted, 1, k) \o <<c>> \o SubSeq(sorted, k + 1, Len(sorted))

\* TerrainChunk::pixel_count
pixel_count(c) == c.sprite.x_scale * SPRITE_WIDTH + c.sprite.y_scale * SPRITE_WIDTH

\* the tiles add_terrain and add_foreground enqueue for a sprite: one for
\* each pixel of its square, x in the outer loop
ChunkTiles(layer, s) ==
    InLoopOrder({ <<layer, TruncDiv(x, TILE_SIZE), TruncDiv(y, TILE_SIZE)>> :
        x \in s.loc[1] .. (s.loc[1] + SPRITE_WIDTH * s.x_scale - 1),
        y \in s.loc[2] .. (s.loc[2] + SPRITE_WIDTH * s.y_scale - 1) })

\* Scene::add_terrain and Scene::add_foreground for a chunk
AddChunk(st, c) ==
    IF c.kind = "Terrain"
    THEN LET r == add_sprite(st.collision_map, c.sprite)
             tiles == ChunkTiles(1, c.sprite)
         IN  [st EXCEPT !.collision_map = r.node,
                        !.solid = @ \cup SpritePixels(st.collision_map, c.sprite),
                        !.queue = EnqueueAll(@, tiles, Len(tiles)),
                        !.ovf = @ \/ r.ovf]
    ELSE LET r == add_sprite(st.foreground_map, c.sprite)
             tiles == ChunkTiles(2, c.sprite)
         IN  [st EXCEPT !.foreground_map = r.node,
                        !.fsolid = @ \cup SpritePixels(st.foreground_map, c.sprite),
                        !.queue = EnqueueAll(@, tiles, Len(tiles)),
                        !.ovf = @ \/ r.ovf]

\* lines 1748-1757: chunks are taken from the end while the budget (a u32)
\* is above 0
RECURSIVE LoadChunks(_, _)
LoadChunks(st, pixel_budget) ==
    IF pixel_budget = 0 \/ st.chunks = <<>> THEN st
    ELSE LET c == st.chunks[Len(st.chunks)]
             rest == SubSeq(st.chunks, 1, Len(st.chunks) - 1)
             added == AddChunk([st EXCEPT !.chunks = rest, !.added = Append(@, c)], c)
         IN  LoadChunks([added EXCEPT !.ovf = @ \/ Underflows(pixel_budget, pixel_count(c))],
                        Sub32(pixel_budget, pixel_count(c)))

\* lines 1766-1768: the tile is near the player, d < (1300.0 * (camera_scale
\* / 8.0)) / TILE_SIZE with d the distance in tiles, both sides squared and
\* in quarter pixels
IsNear(loc, camera_scale, tile) ==
    4 * Distance2(loc, tile[2] * TILE_SIZE, tile[3] * TILE_SIZE)
        < (325 * camera_scale) * (325 * camera_scale)

\* lines 1769-1772: the first index of the queue with the least distance
MinIdx(loc, q) ==
    CHOOSE i \in 1 .. Len(q) :
        /\ \A j \in 1 .. Len(q) :
             Distance2(loc, q[i][2] * TILE_SIZE, q[i][3] * TILE_SIZE)
                 <= Distance2(loc, q[j][2] * TILE_SIZE, q[j][3] * TILE_SIZE)
        /\ \A j \in 1 .. (i - 1) :
             Distance2(loc, q[i][2] * TILE_SIZE, q[i][3] * TILE_SIZE)
                 < Distance2(loc, q[j][2] * TILE_SIZE, q[j][3] * TILE_SIZE)

\* lines 1762-1777: crash_priority, the indices of the tiles to redraw
CrashPriority(loc, camera_scale, q) ==
    LET near == { i \in 1 .. Len(q) : IsNear(loc, camera_scale, q[i]) }
    IN  IF Cardinality(near) < 3 THEN near \cup {MinIdx(loc, q)} ELSE near

\* swap_remove_index that copies the last entry and does not drop it
SwapRemove_KeepsLast(q, i) == [q EXCEPT ![i] = q[Len(q)]]

\* IndexSet::swap_remove_index: the last entry takes the place of the one
\* removed
SwapRemove(q, i) ==
    IF i = Len(q) THEN SubSeq(q, 1, Len(q) - 1)
    ELSE SubSeq([q EXCEPT ![i] = q[Len(q)]], 1, Len(q) - 1)

\* lines 1786-1811: the indices of crash_priority in falling order; each
\* entry removed is the tile redrawn
RECURSIVE Redraw(_, _)
Redraw(st, indices) ==
    IF indices = {} THEN st
    ELSE LET i == CHOOSE i \in indices : \A j \in indices : j <= i
         IN  Redraw([queue |-> SwapRemove(st.queue, i),
                     removed |-> Append(st.removed, st.queue[i])],
                    indices \ {i})

\* lines 1804-1809: the pixels read to redraw a tile (x, y)
TilePixels(x, y) ==
    ((x * TILE_SIZE) .. (x * TILE_SIZE + TILE_SIZE - 1))
        \X ((y * TILE_SIZE) .. (y * TILE_SIZE + TILE_SIZE - 1))

\* the budget of line 1747
PixelBudget == 512 * 512

\* one call of step_cache_warmer
Warm ==
    /\ ~panicked
    /\ terrain_chunks # <<>> \/ tile_queue # <<>>
    /\ \E r \in { LoadChunks([chunks |-> SortChunks(terrain_chunks, sprite.loc,
                                                     Len(terrain_chunks)),
                              collision_map |-> tree, solid |-> solid,
                              foreground_map |-> foreground_map, fsolid |-> fsolid,
                              queue |-> tile_queue, ovf |-> FALSE, added |-> <<>>],
                             PixelBudget) } :
         LET picked == IF r.queue = <<>> THEN {}
                       ELSE CrashPriority(sprite.loc, CameraScale(sprite), r.queue)
             d == Redraw([queue |-> r.queue, removed |-> <<>>], picked)
         IN  /\ terrain_chunks' = r.chunks
             /\ tree' = r.collision_map
             /\ solid' = r.solid
             /\ foreground_map' = r.foreground_map
             /\ fsolid' = r.fsolid
             /\ tile_queue' = d.queue
             /\ warmed' = [queue |-> r.queue, picked |-> picked,
                           removed |-> d.removed, added |-> r.added]
             /\ wrapped' = (wrapped \/ r.ovf)
             /\ panicked' \in (IF r.ovf /\ ~wrapped THEN BOOLEAN ELSE {FALSE})
    /\ UNCHANGED <<last, prev, nops, sprite, potions, end_sequence_triggered,
                   final_potion_triggered, hist, particles, sweepVars, scene, locals,
                   ticks>>

\* the chunks of the level: a terrain and a foreground sprite, of four solid
\* cells each
LevelChunks ==
    << [kind |-> "Terrain",
        sprite |-> [Block(16, 16, 2) EXCEPT !.collider = {0, 1, SPRITE_WIDTH, SPRITE_WIDTH + 1}]],
       [kind |-> "Foreground",
        sprite |-> [Block(8, 8, 3) EXCEPT !.collider = {0, 1, SPRITE_WIDTH, SPRITE_WIDTH + 1}]] >>

\* the tiles that may wait in the queue
WarmTiles == { <<1, 0, 0>>, <<2, 0, 0>>, <<1, 1, 0>>, <<1, 0, 1>>, <<0, 0 - 1, 0>> }

\* the sequences of at most n tiles, none twice
RECURSIVE Queues(_)
Queues(n) ==
    IF n = 0 THEN { <<>> }
    ELSE Queues(n - 1) \cup
         { Append(q, t) : q \in { p \in Queues(n - 1) : Len(p) = n - 1 },
                          t \in WarmTiles }

\* the player of the level where the cache warmer is watched
WarmStarts == { NewSprite(x, 40, sc, sc) : x \in {24, 300}, sc \in {1, 8} }

\* the loop of main after the level was read: chunks wait to be added, tiles
\* wait in the queue
InitWarm ==
    /\ tree = New(0 - WorldOrigin, 0 - WorldOrigin, WorldWidth, WorldWidth)
    /\ FreshTree
    /\ NoSweep
    /\ sprite \in WarmStarts
    /\ potions = <<>>
    /\ end_sequence_triggered = FALSE
    /\ final_potion_triggered = FALSE
    /\ hist = <<>>
    /\ foreground_map = New(tree.x, tree.y, tree.width, tree.height)
    /\ fsolid = {}
    /\ particles = <<>>
    /\ tile_queue \in { q \in Queues(MaxQueue) : Cardinality(Entries(q)) = Len(q) }
    /\ terrain_chunks \in { SubSeq(LevelChunks, 1, n) : n \in 0 .. Len(LevelChunks) }
    /\ warmed = NoWarm
    /\ scene = NoScene
    /\ locals = NoLocals
    /\ ticks = <<>>

NextWarm == Warm

SpecWarm == InitWarm /\ [][NextWarm]_vars

\* the loop of main calls the cache warmer in every turn; the steps that
\* matter for the queue to drain are those made once no chunk is left
SpecWarmLive == SpecWarm /\ WF_vars(terrain_chunks = <<>> /\ Warm)

----------------------------------------------------------------------------
(* The update of a frame (lines 1937-1971): step_physics for the whole      *)
(* scene (lines 862-1270), then the end of the game.  A world is what      *)
(* step_physics works on: the scene, the three maps with their references, *)
(* the queue and the flags, with new_sprites, whether a u32 operation left *)
(* its range (ovf), whether a lookup in the sprite table or an insert has   *)
(* aborted (failed), and a record of what the tick did (did).              *)

\* line 865: `1920.0 * camera_scale'
CullDistance == 1920
\* line 1010: `sprite.loc.y > 30000.0'
DespawnY == 30000
\* line 1073: `collectable.x_scale > 30'
EndScale == 30
\* line 1952: the place of the player after the end
EndPlace == <<10000, 30000>>
\* line 1958: the scale of the small collectables after the end
EndCollectableScale == 50

\* line 865: the sprite is further from the camera than 1920 * camera_scale;
\* the squares are compared by a division, which stays in the range of the
\* integers for every camera_scale
IsCulled(camera, camera_scale, loc) ==
    LET reach == CullDistance * camera_scale
        d2 == Distance2(camera, loc[1], loc[2])
    IN  (d2 \div reach) > reach \/ ((d2 \div reach) = reach /\ d2 % reach > 0)

\* the solid cells (dx, dy) of a collider
CellsOf(collider) == { <<i % SPRITE_WIDTH, i \div SPRITE_WIDTH>> : i \in collider }

\* Sprite::overlap (lines 208-249): some pixel of the intersection of the two
\* rectangles lies in a solid cell of each sprite, i.e. a solid cell of a and
\* a solid cell of b share a pixel
overlap(a, b) ==
    \E ca \in CellsOf(a.body.collider), cb \in CellsOf(b.body.collider) :
        LET ax == a.sprite.loc[1] + ca[1] * a.sprite.x_scale
            ay == a.sprite.loc[2] + ca[2] * a.sprite.y_scale
            bx == b.sprite.loc[1] + cb[1] * b.sprite.x_scale
            by == b.sprite.loc[2] + cb[2] * b.sprite.y_scale
        IN  /\ ax < bx + b.sprite.x_scale /\ bx < ax + a.sprite.x_scale
            /\ ay < by + b.sprite.y_scale /\ by < ay + a.sprite.y_scale

\* what a tick has done, before it does anything
NoDeeds ==
    [swept |-> {}, after_sweep |-> <<>>, despawned |-> {}, settled |-> {},
     after_settle |-> <<>>, consumed |-> {}, collected |-> {},
     drinkers |-> <<>>, after_pickups |-> <<>>, carved |-> <<>>,
     spawned |-> {}]

\* the state step_physics starts from
World ==
    [scene |-> scene,
     collision_map |-> tree, solid |-> solid,
     rubble_map |-> rubble_map, rsolid |-> rsolid,
     foreground_map |-> foreground_map, fsolid |-> fsolid,
     tile_queue |-> tile_queue,
     end_sequence_triggered |-> end_sequence_triggered,
     final_potion_triggered |-> final_potion_triggered,
     new_sprites |-> <<>>, ovf |-> FALSE, failed |-> FALSE, did |-> NoDeeds]

\* a table without the ids in gone (HashMap::retain, HashMap::remove)
Without(tbl, gone) == [id \in (DOMAIN tbl) \ gone |-> tbl[id]]

\* a table with one more entry (HashMap::insert)
With(tbl, id, entry) ==
    [i \in (DOMAIN tbl) \cup {id} |-> IF i = id THEN entry ELSE tbl[i]]

\* a list without the entries that fail Keep (Vec::retain)
Retain(list, Keep(_)) == SelectSeq(list, Keep)

\* lines 868-1004 for one sprite: its entry of the table after its sweep
SweptEntry(e, rubble, terrain) ==
    CHOOSE m \in { [sprite |-> [e.sprite EXCEPT !.loc = r.loc], body |-> r.body] :
                   r \in { Sweep(e.sprite, e.body, rubble, terrain) } } : TRUE

\* lines 864-1005 for the sprites ids of the table: a culled sprite stays as
\* it is, the player is as its sweep (first) left it, another sprite is swept
\* against the rubble map as found if it is in early, as the player left it
\* otherwise
RECURSIVE SweepEach(_, _, _, _, _, _, _)
SweepEach(tbl, ids, near, early, first, rubble_map_found, terrain) ==
    IF ids = {} THEN <<>>
    ELSE LET id == CHOOSE i \in ids : TRUE
             e == IF id \notin near THEN tbl[id]
                  ELSE IF tbl[id].body.is_player
                  THEN [sprite |-> [tbl[id].sprite EXCEPT !.loc = first[1].loc],
                        body |-> first[1].body]
                  ELSE SweptEntry(tbl[id],
                                  IF id \in early \/ first = <<>> THEN rubble_map_found
                                  ELSE first[1].rubble_map,
                                  terrain)
         IN  CHOOSE t \in { With(rest, id, entry) :
                            rest \in { SweepEach(tbl, ids \ {id}, near, early, first,
                                                 rubble_map_found, terrain) },
                            entry \in { e } } : TRUE

\* lines 864-1005: the sweep of every sprite of the table that is not culled.
\* The table is a HashMap, whose order is not fixed: the sprites in early are
\* swept before the player and find the rubble map as the tick found it, the
\* others find it as the sweep of the player left it.  No sweep changes the
\* collision map.
SweepAll(w, camera, camera_scale, early) ==
    LET tbl == w.scene.sprites
        near == { id \in DOMAIN tbl :
                    ~IsCulled(camera, camera_scale, tbl[id].sprite.loc) }
        players == { id \in near : tbl[id].body.is_player }
    IN  CHOOSE out \in UNION {
            { [w EXCEPT !.scene.sprites = after,
                        !.rubble_map = IF first = <<>> THEN @ ELSE first[1].rubble_map,
                        !.rsolid = IF first # <<>> /\ first[1].cleared THEN {} ELSE @,
                        !.did.swept = near,
                        !.did.after_sweep = after] :
              after \in { SweepEach(tbl, DOMAIN tbl, near, early, first,
                                    w.rubble_map, w.collision_map) } } :
            first \in { IF players = {} THEN <<>>
                        ELSE LET p == CHOOSE id \in players : TRUE
                             IN  <<Sweep(tbl[p].sprite, tbl[p].body,
                                         w.rubble_map, w.collision_map)>> } } : TRUE

\* line 1015: `sprite.sleep_timer > 0.5', the timer counted in ticks
IsAsleep(b) == 2 * b.sleep_timer > Fps

\* lines 1032 and 1037: the tile a settled pixel is filed under
SettledTile(x, y) == <<1, TruncDiv(x, TILE_SIZE), TruncDiv(y, TILE_SIZE)>>

\* lines 1021-1040: the pixels lo .. hi (dx the outer loop, dy the inner, from
\* 1) of the rectangle of one cell go into the two maps and the queue
RECURSIVE SettlePixels(_, _, _, _, _, _, _)
SettlePixels(w, x, y, width, height, lo, hi) ==
    IF lo > hi \/ w.failed THEN w
    ELSE IF lo = hi
    THEN LET px == x + ((lo - 1) \div height)
             py == y + ((lo - 1) % height)
         IN  CHOOSE out \in {
                 IF c.res = "Panic" \/ r.res = "Panic"
                 THEN [w EXCEPT !.failed = TRUE]
                 ELSE [w EXCEPT
                         !.collision_map = c.node,
                         !.solid = IF c.res = "Err" THEN @ ELSE @ \cup {<<px, py>>},
                         !.rubble_map = r.node,
                         !.rsolid = IF r.res = "Err" THEN @ ELSE @ \cup {<<px, py>>},
                         !.tile_queue = Enqueue(@, SettledTile(px, py)),
                         !.ovf = @ \/ c.ovf \/ r.ovf] :
                 c \in { insert(w.collision_map, px, py) },
                 r \in { insert(w.rubble_map, px, py) } } : TRUE
    ELSE LET mid == (lo + hi) \div 2
         IN  CHOOSE r \in { SettlePixels(half, x, y, width, height, mid + 1, hi) :
                            half \in { SettlePixels(w, x, y, width, height, lo, mid) } } : TRUE

\* lines 1017-1044: the first n solid cells of a particle that settles
RECURSIVE SettleCells(_, _, _, _)
SettleCells(w, s, cells, n) ==
    IF n = 0 THEN w
    ELSE CHOOSE out \in {
             SettlePixels(v, s.loc[1] + cells[n][1] * s.x_scale,
                          s.loc[2] + cells[n][2] * s.y_scale,
                          s.x_scale, s.y_scale, 1, s.x_scale * s.y_scale) :
             v \in { SettleCells(w, s, cells, n - 1) } } : TRUE

\* lines 1009-1045 for one particle
SettleOne(v, id) ==
    IF v.failed THEN v
    ELSE IF id \notin DOMAIN v.scene.sprites
    THEN [v EXCEPT !.failed = TRUE]
    ELSE LET e == v.scene.sprites[id]
             cells == ColliderCells(e.body.collider)
         IN  IF e.sprite.loc[2] > DespawnY
             THEN [v EXCEPT !.did.despawned = @ \cup {id}]
             ELSE IF e.body.ground_contact /\ IsAsleep(e.body)
             THEN CHOOSE out \in { [u EXCEPT !.did.settled = @ \cup {id}] :
                                   u \in { SettleCells(v, e.sprite, cells, Len(cells)) } } : TRUE
             ELSE v

\* lines 1008-1046 for the first n particles of the list
RECURSIVE SettleEach(_, _)
SettleEach(w, n) ==
    IF n = 0 THEN w
    ELSE CHOOSE out \in { SettleOne(v, w.scene.particles[n]) :
                          v \in { SettleEach(w, n - 1) } } : TRUE

\* a settle pass that would leave the sprites of the particles in the table
SettleAll_KeepsSprites(w) ==
    CHOOSE out \in {
        LET to_remove == v.did.despawned \cup v.did.settled
        IN  IF v.failed THEN v
            ELSE [v EXCEPT
                    !.scene.particles = Retain(@, LAMBDA id : id \notin to_remove),
                    !.did.after_settle = <<[collision_map |-> v.collision_map,
                                            rubble_map |-> v.rubble_map]>>] :
        v \in { SettleEach(w, Len(w.scene.particles)) } } : TRUE

\* lines 1007-1048: the settle pass
SettleAll(w) ==
    CHOOSE out \in {
        LET to_remove == v.did.despawned \cup v.did.settled
        IN  IF v.failed THEN v
            ELSE [v EXCEPT
                    !.scene.particles = Retain(@, LAMBDA id : id \notin to_remove),
                    !.scene.sprites = Without(@, to_remove),
                    !.did.after_settle = <<[collision_map |-> v.collision_map,
                                            rubble_map |-> v.rubble_map]>>] :
        v \in { SettleEach(w, Len(w.scene.particles)) } } : TRUE

\* lines 1056-1066 for one character and the first n potions of the list;
\* acc holds consumed, drinkers, start_end, collected, done and failed
RECURSIVE DrinkEach(_, _, _, _)
DrinkEach(acc, w, character_id, n) ==
    IF n = 0 THEN acc
    ELSE LET potion == w.scene.potions[n]
         IN  CHOOSE out \in {
                 IF a.failed \/ potion.id \in a.consumed THEN a
                 ELSE IF potion.id \notin DOMAIN w.scene.sprites
                 THEN [a EXCEPT !.failed = TRUE]
                 ELSE IF overlap(w.scene.sprites[character_id], w.scene.sprites[potion.id])
                 THEN [a EXCEPT !.consumed = @ \cup {potion.id},
                                !.drinkers = Append(@, <<character_id, potion.type>>),
                                !.start_end = @ \/ potion.end]
                 ELSE a :
                 a \in { DrinkEach(acc, w, character_id, n - 1) } } : TRUE

\* lines 1067-1078 for one character and the first n collectables of the list
RECURSIVE CollectEach(_, _, _, _)
CollectEach(acc, w, character_id, n) ==
    IF n = 0 THEN acc
    ELSE LET id == w.scene.collectables[n]
         IN  CHOOSE out \in {
                 IF a.failed \/ id \in a.collected THEN a
                 ELSE IF id \notin DOMAIN w.scene.sprites
                 THEN [a EXCEPT !.failed = TRUE]
                 ELSE IF overlap(w.scene.sprites[character_id], w.scene.sprites[id])
                 THEN [a EXCEPT !.collected = @ \cup {id},
                                !.done = @ \/ w.scene.sprites[id].sprite.x_scale > EndScale]
                 ELSE a :
                 a \in { CollectEach(acc, w, character_id, n - 1) } } : TRUE

\* lines 1054-1079 for the first n characters of the list
RECURSIVE PickupEach(_, _)
PickupEach(w, n) ==
    IF n = 0
    THEN [consumed |-> {}, drinkers |-> <<>>, start_end |-> FALSE,
          collected |-> {}, done |-> w.scene.done, failed |-> FALSE]
    ELSE LET id == w.scene.characters[n]
         IN  CHOOSE out \in {
                 IF a.failed THEN a
                 ELSE IF id \notin DOMAIN w.scene.sprites
                 THEN [a EXCEPT !.failed = TRUE]
                 ELSE CHOOSE c \in { CollectEach(d, w, id, Len(w.scene.collectables)) :
                                     d \in { DrinkEach(a, w, id, Len(w.scene.potions)) } } : TRUE :
                 a \in { PickupEach(w, n - 1) } } : TRUE

\* lines 1099-1106 for the first n drinkers
RECURSIVE DrinkAll(_, _, _)
DrinkAll(w, drinkers, n) ==
    IF n = 0 THEN w
    ELSE LET id == drinkers[n][1]
         IN  CHOOSE out \in {
                 IF v.failed THEN v
                 ELSE IF id \notin DOMAIN v.scene.sprites
                 THEN [v EXCEPT !.failed = TRUE]
                 ELSE [v EXCEPT !.scene.sprites[id].sprite = Drink(@, drinkers[n][2])] :
                 v \in { DrinkAll(w, drinkers, n - 1) } } : TRUE

\* lines 1050-1106: the potions and the collectables the characters overlap
PickupAll(w) ==
    IF w.failed THEN w
    ELSE CHOOSE out \in {
        IF a.failed THEN [w EXCEPT !.failed = TRUE]
        ELSE CHOOSE done \in {
                [drunk EXCEPT !.did.after_pickups = drunk.scene.sprites] :
                drunk \in {
                   DrinkAll(
                     [w EXCEPT
                        !.scene.potions =
                           EndSequence(Retain(@, LAMBDA p : p.id \notin a.consumed),
                                       a.start_end),
                        !.scene.sprites = Without(@, a.consumed \cup a.collected),
                        !.end_sequence_triggered = @ \/ a.start_end,
                        !.scene.collectables = Retain(@, LAMBDA id : id \notin a.collected),
                        !.scene.collected =
                           [id \in (DOMAIN @) \cup a.collected |->
                              IF id \in a.collected THEN w.scene.sprites[id] ELSE @[id]],
                        !.scene.score = @ + Cardinality(a.collected),
                        !.scene.done = a.done,
                        !.did.consumed = a.consumed,
                        !.did.collected = a.collected,
                        !.did.drinkers = a.drinkers],
                     a.drinkers, Len(a.drinkers)) } } : TRUE :
        a \in { PickupEach(w, Len(w.scene.characters)) } } : TRUE

\* lines 1109-1262 for one character
ScaleOne(v, id) ==
    IF v.failed THEN v
    ELSE IF id \notin DOMAIN v.scene.sprites
    THEN [v EXCEPT !.failed = TRUE]
    ELSE CHOOSE out \in UNION {
           { [v EXCEPT
                !.scene.sprites[id].sprite = r.sprite,
                !.final_potion_triggered = r.final,
                !.foreground_map = c.foreground_map,
                !.fsolid = c.fsolid,
                !.collision_map = c.collision_map,
                !.solid = c.solid,
                !.new_sprites = c.new_sprites,
                !.tile_queue = EnqueueAll(@, c.tiles, Len(c.tiles)),
                !.ovf = @ \/ c.ovf,
                !.did.carved = IF r.applied /\ (r.x_delta > 0 \/ r.y_delta > 0)
                               THEN Append(@, id) ELSE @] :
             c \in { LET acc == [foreground_map |-> v.foreground_map,
                                 fsolid |-> v.fsolid,
                                 collision_map |-> v.collision_map,
                                 solid |-> v.solid,
                                 new_sprites |-> v.new_sprites,
                                 live |-> Len(v.scene.particles),
                                 tiles |-> <<>>, ovf |-> FALSE, cells |-> <<>>]
                     IN  IF r.applied THEN Carve(acc, r.sprite, r.x_delta, r.y_delta)
                         ELSE acc } } :
           r \in { Countdown(v.scene.sprites[id].sprite,
                             v.end_sequence_triggered,
                             v.final_potion_triggered) } } : TRUE

\* lines 1108-1263 for the first n characters of the list (a copy of the list
\* as the loop found it)
RECURSIVE ScaleEach(_, _, _)
ScaleEach(w, characters, n) ==
    IF n = 0 THEN w
    ELSE CHOOSE out \in { ScaleOne(v, characters[n]) :
                          v \in { ScaleEach(w, characters, n - 1) } } : TRUE

\* lines 1108-1263: the countdown, the change of scale and the carve of every
\* character
ScaleAll(w) == ScaleEach(w, w.scene.characters, Len(w.scene.characters))

\* 0.5 times the share d has in the length of the direction (d, other), in
\* the units of velocity: exact along an axis, where the other component is
\* the product of 0.5 and the cosine of a right angle as f32 computes it,
\* some 3e-17, held as 0; cut to a whole unit otherwise
HalfAlong(d, other) ==
    LET half == VelocityUnit \div 2
        k == CHOOSE k \in 0 .. half :
               /\ k * k * (d * d + other * other) <= half * half * d * d
               /\ (k + 1) * (k + 1) * (d * d + other * other) > half * half * d * d
    IN  IF d < 0 THEN 0 - k ELSE k

\* lines 1220-1233: the sprite of a debris
DebrisSprite(d) ==
    [sprite |-> NewSprite(d.loc[1], d.loc[2], d.x_scale, d.y_scale),
     body |-> [NewBody(FALSE, {0}) EXCEPT
                 !.velocity = <<HalfAlong(d.velocity[1], d.velocity[2]),
                                HalfAlong(d.velocity[2], d.velocity[1])>>]]

\* Scene::add_particle (lines 763-768 and 782-786) for the first n of
\* new_sprites
RECURSIVE AddParticles(_, _)
AddParticles(w, n) ==
    IF n = 0 \/ w.failed THEN w
    ELSE CHOOSE out \in {
             [v EXCEPT !.scene.next_id = @ + 1,
                       !.scene.sprites = With(@, v.scene.next_id, DebrisSprite(w.new_sprites[n])),
                       !.scene.particles = Append(@, v.scene.next_id),
                       !.did.spawned = @ \cup {v.scene.next_id}] :
             v \in { AddParticles(w, n - 1) } } : TRUE

\* a step_physics that would settle the particles before it sweeps
step_physics_SettleFirst(w, camera, camera_scale, early) ==
    CHOOSE out \in {
        AddParticles(carved, Len(carved.new_sprites)) :
        carved \in { ScaleAll(picked) :
          picked \in { PickupAll(moved) :
            moved \in { SweepAll(settled, camera, camera_scale, early) :
              settled \in { SettleAll(w) } } } } } : TRUE

\* Scene::step_physics (lines 862-1270)
step_physics(w, camera, camera_scale, early) ==
    CHOOSE out \in {
        AddParticles(carved, Len(carved.new_sprites)) :
        carved \in { ScaleAll(picked) :
          picked \in { PickupAll(settled) :
            settled \in { SettleAll(moved) :
              moved \in { SweepAll(w, camera, camera_scale, early) } } } } } : TRUE

\* lines 1948-1970: the end of the game, once: every sprite but the player
\* leaves the table, the lists of particles, collectables and potions are
\* emptied (the list of characters is not), the player is moved, the
\* collectables collected come back into the table, the small ones at a
\* place the code takes from a sine, and the maps are cleared
Restart(w, player_id, place) ==
    LET back == [id \in DOMAIN w.scene.collected |->
                   LET e == w.scene.collected[id]
                       small == e.sprite.x_scale < EndScale
                   IN  [sprite |-> IF small
                                   THEN [e.sprite EXCEPT !.x_scale = EndCollectableScale,
                                                         !.y_scale = EndCollectableScale,
                                                         !.loc = place]
                                   ELSE e.sprite,
                        body |-> [e.body EXCEPT !.gravity = FALSE,
                                                !.velocity = <<0, 0>>]]]
        kept == [id \in {player_id} |->
                   [w.scene.sprites[id] EXCEPT !.sprite.loc = EndPlace]]
    IN  [w EXCEPT
           !.scene.sprites = [id \in {player_id} \cup DOMAIN back |->
                                IF id \in DOMAIN back THEN back[id] ELSE kept[id]],
           !.scene.particles = <<>>,
           !.scene.collectables = <<>>,
           !.scene.potions = <<>>,
           !.scene.collected = <<>>,
           !.collision_map = clear(@),
           !.solid = {},
           !.foreground_map = clear(@),
           !.fsolid = {}]

\* the keys of a frame of the level below: none, or the key to jump when it
\* has an effect (the key to the right would take the player off the column
\* the level is built on)
TickInputs(b) == IF b.ground_contact THEN {"none", "jump"} ELSE {"none"}

\* the sprites whose sweep tests a candidate position: the others have no
\* gravity and no velocity, and are left where they are whatever the maps hold
Movable(tbl) ==
    { id \in DOMAIN tbl : tbl[id].body.gravity \/ tbl[id].body.velocity # <<0, 0>> }

\* lines 1959-1961: the places a small collectable can come back at
EndPlaces == { <<2000, 2000>>, <<6000, 6000>> }

\* older records of ticks without their copies of the maps
Lighten(log) ==
    [i \in 1 .. Len(log) |-> [log[i] EXCEPT !.maps_before = <<>>,
                                            !.did.after_settle = <<>>]]

\* the update of a frame (lines 1937-1971): the input of the frame for the
\* player, step_physics with the camera on the player, and the end of the
\* game when the tick has set `done'
Tick ==
    /\ Len(ticks) < MaxFrames
    /\ ~panicked
    /\ locals.player_id # <<>>
    /\ \E key \in TickInputs(scene.sprites[locals.player_id[1]].body) :
       \E early \in (IF rsolid = {} THEN {{}}
                     ELSE SUBSET (Movable(scene.sprites) \ {locals.player_id[1]})) :
       \E place \in (IF \E id \in DOMAIN scene.collected :
                           scene.collected[id].sprite.x_scale < EndScale
                     THEN EndPlaces ELSE {<<2000, 2000>>}) :
         LET player_id == locals.player_id[1]
             camera == scene.sprites[player_id].sprite.loc
             camera_scale == locals.camera_scale
             start == [World EXCEPT !.scene.sprites[player_id].body = Input(@, key)]
         IN  \E w \in { step_physics(start, camera, camera_scale, early) } :
             \E e \in { IF ~w.failed /\ w.scene.done /\ ~locals.setup_end
                        THEN Restart(w, player_id, place) ELSE w } :
               /\ ticks' = Append(Lighten(ticks),
                             [key |-> key, camera |-> camera,
                              camera_scale |-> camera_scale,
                              before |-> scene,
                              maps_before |-> <<[collision_map |-> tree,
                                                 rubble_map |-> rubble_map]>>,
                              did |-> w.did,
                              failed |-> w.failed,
                              stepped |-> w.scene,
                              queue |-> w.tile_queue,
                              restarted |-> ~w.failed /\ w.scene.done /\ ~locals.setup_end,
                              after |-> IF w.failed THEN scene ELSE e.scene])
               /\ IF w.failed
                  THEN /\ panicked' = TRUE
                       /\ UNCHANGED <<tree, solid, rubble_map, rsolid, foreground_map,
                                      fsolid, tile_queue, end_sequence_triggered,
                                      final_potion_triggered, scene, locals, wrapped>>
                  ELSE /\ tree' = e.collision_map
                       /\ solid' = e.solid
                       /\ rubble_map' = e.rubble_map
                       /\ rsolid' = e.rsolid
                       /\ foreground_map' = e.foreground_map
                       /\ fsolid' = e.fsolid
                       /\ tile_queue' = e.tile_queue
                       /\ end_sequence_triggered' = e.end_sequence_triggered
                       /\ final_potion_triggered' = e.final_potion_triggered
                       /\ scene' = e.scene
                       /\ locals' = [locals EXCEPT !.setup_end = @ \/ e.scene.done]
                       /\ wrapped' = (wrapped \/ e.ovf)
                       /\ panicked' \in (IF e.ovf /\ ~wrapped THEN BOOLEAN ELSE {FALSE})
    /\ UNCHANGED <<last, prev, nops, sprite, potions, hist, particles, body, swept,
                   terrain_chunks, warmed>>

\* a piece of terrain of the level: one solid cell of two by two pixels
Ledge(x, y) == [collider |-> {0}, loc |-> <<x, y>>, x_scale |-> 2, y_scale |-> 2]

\* a character of the level: two solid cells in the ninth column of the
\* sprite, one above the other
Character(x, y) ==
    [sprite |-> NewSprite(x, y, 1, 1),
     body |-> NewBody(FALSE, {8, 8 + SPRITE_WIDTH})]

\* an object of the level that floats (`gravity' false in the map): one solid
\* cell
Floating(x, y, scale, cell) ==
    [sprite |-> NewSprite(x, y, scale, scale),
     body |-> [NewBody(FALSE, {cell}) EXCEPT !.gravity = FALSE]]

\* Scene::add_sprite (lines 763-768)
AddSprite(sc, entry) ==
    [sc EXCEPT !.next_id = @ + 1, !.sprites = With(@, sc.next_id, entry)]

\* Scene::add_character, add_potion, add_collectable (lines 770-792)
AddCharacter(sc, entry) ==
    [AddSprite(sc, entry) EXCEPT !.characters = Append(@, sc.next_id)]

AddPotion(sc, entry, potion_type, start_end) ==
    [AddSprite(sc, entry) EXCEPT
       !.potions = Append(@, [id |-> sc.next_id, type |-> potion_type, end |-> start_end])]

AddCollectable(sc, entry) ==
    [AddSprite(sc, entry) EXCEPT !.collectables = Append(@, sc.next_id)]

\* the columns of pixels the level can be built on, right or left of 0
LevelColumns == {24, 0 - 2}

\* what the level holds beside the player, a growth potion on the player and
\* the collectable that ends the game, above the player: nothing; a second
\* character on the place of the player; a second character far away with a
\* potion of its own; or a potion 121 times the size of the player's whose
\* last column reaches the player from far on the left
LevelExtras == {"alone", "pair", "far", "wide"}

\* the scene of a level as the loading of the map (lines 1457-1690) leaves it:
\* the player is the last character added
LevelScene(x, extra) ==
    LET s0 == IF extra = "pair" THEN AddCharacter(NoScene, Character(x - 8, 30))
              ELSE IF extra = "far"
              THEN AddPotion(AddCharacter(NoScene, Character(x + 5000, 30)),
                             Floating(x + 5000, 30, 1, 8), Relative(1, 1), FALSE)
              ELSE NoScene
        s1 == AddCharacter(s0, Character(x - 8, 30))
        s2 == IF extra = "wide"
              THEN AddPotion(s1, Floating(x - 1930, 30, 121, SPRITE_WIDTH - 1),
                             Relative(1, 1), FALSE)
              ELSE AddPotion(s1, Floating(x - 8, 30, 1, 8), Relative(1, 1), FALSE)
        s3 == AddCollectable(s2, Floating(x - 15, 0 - 30, 31, 0))
        player_id == s1.next_id - 1
    IN  [scene |-> [s3 EXCEPT !.sprites[player_id].body.is_player = TRUE],
         player_id |-> player_id]

\* a level read and all its chunks added: a ledge under the player and one
\* further down in the same column
InitTick ==
    /\ \E x \in LevelColumns, extra \in LevelExtras :
         LET world == New(0 - WorldOrigin, 0 - WorldOrigin, WorldWidth, WorldWidth)
             upper == add_sprite(world, Ledge(x, 32)).node
             level == LevelScene(x, extra)
         IN  /\ tree = add_sprite(upper, Ledge(x, 40)).node
             /\ solid = SpritePixels(world, Ledge(x, 32)) \cup SpritePixels(world, Ledge(x, 40))
             /\ rubble_map = world
             /\ foreground_map = world
             /\ scene = level.scene
             /\ locals = [player_id |-> <<level.player_id>>, setup_end |-> FALSE,
                          camera_scale |->
                             CameraScale(level.scene.sprites[level.player_id].sprite)]
    /\ rsolid = {}
    /\ fsolid = {}
    /\ last = NoCall
    /\ prev = [tree |-> tree, solid |-> solid, last |-> last, before |-> solid]
    /\ nops = 0
    /\ panicked = FALSE
    /\ wrapped = FALSE
    /\ sprite = NewSprite(0, 0, 1, 1)
    /\ body = NewBody(TRUE, {0})
    /\ swept = <<>>
    /\ potions = <<>>
    /\ end_sequence_triggered = FALSE
    /\ final_potion_triggered = FALSE
    /\ hist = <<>>
    /\ particles = <<>>
    /\ tile_queue = <<>>
    /\ terrain_chunks = <<>>
    /\ warmed = NoWarm
    /\ ticks = <<>>

\* line 1990: what camera_scale is drawn to after the end
EndCameraScale == 100

\* the part of a frame drawn that bears on the physics (lines 1985-1991):
\* camera_scale moves a tenth of the way to the scale of the player when it
\* is further than a tenth from it, and a tenth of the way to 100 after the
\* end; it is held in whole numbers here, and a step of this action stands
\* for the frames that take it there
Draw ==
    /\ ~panicked
    /\ locals.player_id # <<>>
    /\ \E target \in {CameraScale(scene.sprites[locals.player_id[1]].sprite)}
                       \cup (IF scene.done THEN {EndCameraScale} ELSE {}) :
         /\ target # locals.camera_scale
         /\ locals' = [locals EXCEPT !.camera_scale = target]
    /\ UNCHANGED <<tree, solid, last, prev, nops, panicked, wrapped,
                   sprite, potions, end_sequence_triggered, final_potion_triggered,
                   hist, foreground_map, fsolid, particles, tile_queue, sweepVars,
                   terrain_chunks, warmed, scene, ticks>>

NextTick == Tick \/ Draw

SpecTick == InitTick /\ [][NextTick]_vars

----------------------------------------------------------------------------
(* The claims.  `solid' is the reference: the pixels covered by an insert  *)
(* or insert_rect and not since by a remove_rect or a clear.               *)

\* the arguments of the last call, and the pixels of the domain they cover
LastRect == <<last.x, last.y, last.width, last.height>>

LastPixels == RectPixels(prev.tree, last.x, last.y, last.width, last.height)

\* check_point gives the same answer on two trees, over the whole domain
SameOccupancy(a, b, pixels) ==
    \A p \in pixels : check_point(a, p[1], p[2]) = check_point(b, p[1], p[2])

RECURSIVE FreePixelsExact(_)
FreePixelsExact(self) ==
    /\ self.free_pixels
         = Area(self) - Cardinality({p \in solid : InBounds(self, p[1], p[2])})
    /\ \A i \in 1..Len(self.children) : FreePixelsExact(self.children[i])

\* C1: after any sequence of insert, insert_rect, remove_rect and clear
\* calls, every node has free_pixels = width*height - (the number of solid
\* pixels inside its bounds).
C1_FreePixelsExact == ~panicked => FreePixelsExact(tree)

\* C2: check_point(x,y) is true exactly for the pixels of the domain that
\* an insert or insert_rect covered and no later remove_rect or clear did.
C2_CheckPointIsReference ==
    ~panicked =>
        \A p \in Domain(tree) \cup PointInputs(tree) :
            check_point(tree, p[1], p[2]) = (p \in solid)

\* the cuts of a span, from which the sub-rectangles of a rectangle are taken
Cuts(a, n) == { c \in {a, a + 1, a + n \div 2, a + n - 1, a + n} : a <= c /\ c <= a + n }

SubRects(x, y, width, height) ==
    { <<x1, y1, x2 - x1, y2 - y1>> :
        x1 \in Cuts(x, width), x2 \in Cuts(x, width),
        y1 \in Cuts(y, height), y2 \in Cuts(y, height) }
    \cap (Int \X Int \X Nat \X Nat)

\* the last two calls were insert_rect(r) and remove_rect(r), r overlaps the
\* domain and held no solid pixel before them
RoundTripDone ==
    /\ last.op = "remove_rect"
    /\ prev.last.op = "insert_rect"
    /\ prev.last.res = "Ok"
    /\ <<prev.last.x, prev.last.y, prev.last.width, prev.last.height>> = LastRect
    /\ LastPixels # {}
    /\ LastPixels \cap prev.before = {}

\* C3: from any tree with no solid pixel inside r, insert_rect(r) followed by
\* remove_rect(r) leaves check_rect(s) false for every sub-rectangle s of r.
C3_RoundTripLeavesFree ==
    (~panicked /\ RoundTripDone) =>
        \A s \in SubRects(last.x, last.y, last.width, last.height) :
            ~check_rect(tree, s[1], s[2], s[3], s[4])

\* C4: insert(p) of a free pixel of the domain returns Ok(true) and makes p
\* solid; the same insert repeated at once returns Ok(false) and changes
\* nothing; insert returns Ok(false) only if p was solid already.
C4_InsertTwice ==
    (~panicked /\ last.op = "insert") =>
        /\ (<<last.x, last.y>> \in Domain(prev.tree) \ prev.solid)
              => (last.res = "OkTrue" /\ check_point(tree, last.x, last.y))
        /\ (/\ prev.last.op = "insert"
            /\ prev.last.res = "OkTrue"
            /\ <<prev.last.x, prev.last.y>> = <<last.x, last.y>>)
              => (last.res = "OkFalse" /\ tree = prev.tree)
        /\ (last.res = "OkFalse") => (<<last.x, last.y>> \in prev.solid)

\* C5: remove_rect over a region of the domain that holds no solid pixel
\* returns (true, 0) and leaves the occupancy of every pixel unchanged, in
\* every reachable tree.  Stated here for the trees that hold no solid pixel
\* at all, where (true, 0) is also what the contract of the returned pair
\* ("the touched subtree is now completely free") asks for.
C5_RemoveEmptyRegion ==
    (~panicked /\ last.op = "remove_rect" /\ LastPixels # {}
        /\ prev.solid = {}) =>
        /\ last.empty
        /\ last.cnt = 0
        /\ SameOccupancy(tree, prev.tree, Domain(tree))

\* C6: insert_rect of a rectangle overlapping the domain returns Ok(n), n the
\* number of pixels of the domain inside the rectangle that were free; after
\* it those pixels are all solid and the pixels outside it are unchanged.
C6_InsertRectCount ==
    (~panicked /\ last.op = "insert_rect" /\ LastPixels # {}) =>
        /\ last.res = "Ok"
        /\ last.cnt = Cardinality(LastPixels \ prev.solid)
        /\ \A p \in LastPixels : check_point(tree, p[1], p[2])
        /\ SameOccupancy(tree, prev.tree, Domain(tree) \ LastPixels)

\* C7: remove_rect returns as removed_count the number of pixels of the
\* domain inside the rectangle that were solid; after it those pixels are
\* all free and the pixels outside it are unchanged.
C7_RemoveRectCount ==
    (~panicked /\ last.op = "remove_rect") =>
        /\ last.cnt = Cardinality(LastPixels \cap prev.solid)
        /\ \A p \in LastPixels : ~check_point(tree, p[1], p[2])
        /\ SameOccupancy(tree, prev.tree, Domain(tree) \ LastPixels)

\* C8: when remove_rect returns became_fully_empty = true the node is free:
\* check_point is false on all its pixels and free_pixels = width*height.
C8_EmptyMeansFree ==
    (~panicked /\ last.op = "remove_rect" /\ last.empty) =>
        /\ tree.free_pixels = Area(tree)
        /\ \A p \in Domain(tree) : ~check_point(tree, p[1], p[2])

\* C9: check_rect is true exactly when check_point is true of some pixel
\* inside both the rectangle and the domain.
C9_CheckRectIsAnyPoint ==
    ~panicked =>
        \A q \in RectInputs(tree) :
            check_rect(tree, q[1], q[2], q[3], q[4])
              = (\E p \in RectPixels(tree, q[1], q[2], q[3], q[4]) :
                    check_point(tree, p[1], p[2]))

\* C10: insert returns Err exactly when the point lies outside the domain,
\* and then leaves every node of the tree as it was.
C10_InsertErrIffOutside ==
    (last.op = "insert") =>
        /\ (last.res = "Err") <=> (<<last.x, last.y>> \notin Domain(prev.tree))
        /\ (last.res = "Err") => (tree = prev.tree)

\* C10's case: an insert outside the domain of a tree that has been
\* subdivided and holds pixels
C10_Witness ==
    /\ last.op = "insert"
    /\ last.res = "Err"
    /\ tree.children # <<>>
    /\ tree.free_pixels # Area(tree)

\* C11: insert_rect returns Err whenever the rectangle shares no pixel with
\* the domain (also when it starts exactly on the right or bottom edge), and
\* then leaves the tree unchanged.  Stated for rectangles of positive width
\* and height (C13 is about the others).
C11_InsertRectErrOutside ==
    (~panicked /\ last.op = "insert_rect" /\ last.width > 0 /\ last.height > 0
        /\ LastPixels = {}) =>
        /\ last.res = "Err"
        /\ tree = prev.tree

\* C12: with any domain width and height, insert of a point of the domain
\* and insert_rect of any rectangle return a result: unreachable!() is never
\* reached.
C12_NeverUnreachable == last.res # "Panic"

\* C13: rectangles of width 0 or height 0 are no-ops and never failures:
\* insert_rect and remove_rect leave the occupancy of every pixel unchanged
\* and report 0 pixels without an error, and check_rect returns false.
C13_ZeroRectNoOp ==
    ~panicked =>
        /\ \A q \in RectInputs(tree) :
             (q[3] = 0 \/ q[4] = 0) => ~check_rect(tree, q[1], q[2], q[3], q[4])
        /\ (last.op \in {"insert_rect", "remove_rect"}
              /\ (last.width = 0 \/ last.height = 0)) =>
             /\ last.res = "Ok"
             /\ last.cnt = 0
             /\ SameOccupancy(tree, prev.tree, Domain(tree))

\* C14: after clear() the root has no children and no grid, free_pixels is
\* width*height, check_point and check_rect are false for every argument,
\* and the tree is the tree CollisionTree::new builds for the same domain
\* (so every later call behaves as on a fresh tree).
C14_ClearIsFresh ==
    (last.op = "clear") =>
        /\ tree.children = <<>>
        /\ tree.grid = <<>>
        /\ tree.free_pixels = tree.width * tree.height
        /\ \A p \in Domain(tree) \cup PointInputs(tree) : ~check_point(tree, p[1], p[2])
        /\ \A q \in RectInputs(tree) : ~check_rect(tree, q[1], q[2], q[3], q[4])
        /\ tree = New(prev.tree.x, prev.tree.y, prev.tree.width, prev.tree.height)

\* C14's case: clear() of a subdivided tree whose root counts no free pixel
C14_Witness ==
    /\ last.op = "clear"
    /\ prev.tree.children # <<>>
    /\ prev.tree.free_pixels = 0

\* the whole domain was inserted into the fresh tree by the call before last
FullThenLast ==
    /\ nops = 2
    /\ prev.last.op = "insert_rect"
    /\ <<prev.last.x, prev.last.y, prev.last.width, prev.last.height>>
         = <<tree.x, tree.y, tree.width, tree.height>>

\* C15: on a fresh tree over (0,0,256,256), insert_rect(0,0,256,256) leaves
\* the root's free_pixels at 0 and check_rect(10,10,5,5) true; a following
\* remove_rect(0,0,128,256) leaves check_rect(200,10,5,5) true and
\* check_rect(10,10,5,5) false; removing any half of the full domain leaves
\* exactly the other half solid.
C15_HalfOfFullDomain ==
    /\ (nops = 1 /\ last.op = "insert_rect" /\ LastRect = <<0, 0, 256, 256>>) =>
          /\ last.res = "Ok"
          /\ tree.free_pixels = 0
          /\ check_rect(tree, 10, 10, 5, 5)
    /\ (FullThenLast /\ last.op = "remove_rect" /\ LastRect = <<0, 0, 128, 256>>) =>
          /\ ~panicked
          /\ check_rect(tree, 200, 10, 5, 5)
          /\ ~check_rect(tree, 10, 10, 5, 5)
    /\ (FullThenLast /\ last.op = "remove_rect" /\ LastRect \in ScenarioHalves(tree)) =>
          /\ ~panicked
          /\ \A p \in Domain(tree) :
                check_point(tree, p[1], p[2]) <=> (p \notin LastPixels)

\* C15's case: the left half is removed from the full 256 x 256 tree
C15_Witness ==
    /\ FullThenLast
    /\ ~panicked
    /\ tree.width = 256
    /\ last.op = "remove_rect"
    /\ LastRect = <<0, 0, 128, 256>>

\* the ticks made so far
Ticks == 1 .. Len(hist)

\* tick k changed the scale or the position of the character
Moved(k) ==
    \/ hist[k].after.x_scale # hist[k].before.x_scale
    \/ hist[k].after.y_scale # hist[k].before.y_scale
    \/ hist[k].after.loc # hist[k].before.loc

\* Relative(+10,+10) was drunk in tick a and Relative(+5,0) in tick b, when
\* the timer started in tick a was still > 0, and nothing else was drunk
TwoPotions(a, b) ==
    /\ a <= b
    /\ \A k \in Ticks :
         hist[k].drunk = (IF k = a /\ k = b THEN <<Relative(10, 10), Relative(5, 0)>>
                          ELSE IF k = a THEN <<Relative(10, 10)>>
                          ELSE IF k = b THEN <<Relative(5, 0)>>
                          ELSE <<>>)
    /\ a < b => /\ hist[b].before.potion_timer # <<>>
                /\ hist[b].before.potion_timer[1] >= 0

\* C16: when Relative(+10,+10) and then Relative(+5,0) are drunk before the
\* countdown of the first is over (no end sequence), scale and position change
\* in one tick only, the one where the countdown ends, by (+15,+10) within
\* the limits 1 and MAX_SCALE (in no tick at all when that leaves the scale
\* as it is), and no tick applies one of the two potions alone.
C16_TwoPotionsOneChange ==
    \A a, b \in Ticks :
        TwoPotions(a, b) =>
            /\ \A k \in Ticks :
                 /\ (hist[k].expired /\ hist[k].queued # <<>>) =>
                        hist[k].queued = <<Relative(10, 10), Relative(5, 0)>>
                 /\ Moved(k) =>
                        /\ hist[k].expired
                        /\ \A j \in a .. (k - 1) : ~hist[j].expired
                        /\ hist[k].queued = <<Relative(10, 10), Relative(5, 0)>>
                        /\ hist[k].after.x_scale
                             = Clamp(hist[k].before.x_scale + 15, 1, MAX_SCALE)
                        /\ hist[k].after.y_scale
                             = Clamp(hist[k].before.y_scale + 10, 1, MAX_SCALE)
            /\ Cardinality({ k \in Ticks : Moved(k) }) <= 1
            /\ (\E k \in b .. Len(hist) : hist[k].expired) =>
                 \/ \E k \in Ticks : Moved(k)
                 \/ /\ hist[1].before.x_scale
                         = Clamp(hist[1].before.x_scale + 15, 1, MAX_SCALE)
                    /\ hist[1].before.y_scale
                         = Clamp(hist[1].before.y_scale + 10, 1, MAX_SCALE)

\* C16's case: the two potions are drunk in different ticks and the change
\* has been made
C16_Witness ==
    \E a, b \in Ticks :
        /\ a < b
        /\ TwoPotions(a, b)
        /\ \E k \in Ticks : Moved(k) /\ hist[k].after.x_scale = hist[k].before.x_scale + 15

\* C17: while the countdown runs (timer present and > 0) a pickup only
\* appends to pending_potions and leaves the timer as it is; a pickup sets the
\* timer to SCALE_CHANGE_TIMEOUT only when it is absent or <= 0.
C17_PickupKeepsRunningTimer ==
    \A k \in Ticks :
        LET h == hist[k]
            running == h.before.potion_timer # <<>> /\ h.before.potion_timer[1] >= 0
        IN  /\ h.queued = h.before.pending_potions \o h.drunk
            /\ (h.drunk = <<>> \/ running) => h.armed = h.before.potion_timer
            /\ (h.drunk # <<>> /\ ~running) => h.armed = <<SCALE_CHANGE_TIMEOUT * Fps>>

\* C17's case: a potion is drunk while the countdown has run for a while
C17_Witness ==
    \E k \in Ticks :
        /\ hist[k].drunk # <<>>
        /\ hist[k].before.potion_timer # <<>>
        /\ hist[k].before.potion_timer[1] >= 0
        /\ hist[k].before.potion_timer[1] < SCALE_CHANGE_TIMEOUT * Fps
        /\ hist[k].before.pending_potions # <<>>

\* the i32 a potion holds for an axis (1: x, 2: y), as an Option
Axis(potion, a) == IF a = 1 THEN potion.x ELSE potion.y

\* the last Absolute potion of q that sets the axis, 0 when there is none
LastAbsolute(q, a) ==
    LET S == { i \in 1 .. Len(q) : q[i].kind = "Absolute" /\ Axis(q[i], a) # <<>> }
    IN  IF S = {} THEN 0 ELSE CHOOSE i \in S : \A j \in S : j <= i

\* the sum of the Relative potions of q from index i on
RECURSIVE RelativeFrom(_, _, _)
RelativeFrom(q, a, i) ==
    IF i > Len(q) THEN 0
    ELSE (IF q[i].kind = "Relative" THEN Axis(q[i], a)[1] ELSE 0) + RelativeFrom(q, a, i + 1)

\* the scale the potions of q give on an axis, starting from cur
FoldedAxis(q, a, cur) ==
    LET j == LastAbsolute(q, a)
    IN  (IF j = 0 THEN cur ELSE Axis(q[j], a)[1]) + RelativeFrom(q, a, j + 1)

\* C18: when the countdown ends the pending potions are applied in pickup
\* order to the current scale: a Relative adds to the running value of each
\* axis, an Absolute replaces it on the axes it names, so the result is the
\* last Absolute of an axis (or the current scale) plus the Relative ones
\* after it; pending_potions is empty afterwards.
C18_FoldInPickupOrder ==
    \A k \in Ticks :
        hist[k].expired =>
            /\ hist[k].folded = <<FoldedAxis(hist[k].queued, 1, hist[k].before.x_scale),
                                  FoldedAxis(hist[k].queued, 2, hist[k].before.y_scale)>>
            /\ hist[k].after.pending_potions = <<>>

\* C18's case: an Absolute between two Relative ones
C18_Witness ==
    \E k \in Ticks :
        /\ hist[k].expired
        /\ Len(hist[k].queued) >= 3
        /\ hist[k].queued[1].kind = "Relative"
        /\ hist[k].queued[2].kind = "Absolute"
        /\ hist[k].queued[3].kind = "Relative"

\* C19: a scale application leaves each scale at
\* clamp(old scale + net delta, 1, MAX_SCALE), the net delta being the folded
\* value less the old scale, or 20 under the final flag; both scales stay
\* within 1 .. MAX_SCALE.
C19_ScaleClamped ==
    /\ \A k \in Ticks :
         hist[k].applied =>
            LET h == hist[k]
                net_x == IF h.final THEN 20 ELSE h.folded[1] - h.before.x_scale
                net_y == IF h.final THEN 20 ELSE h.folded[2] - h.before.y_scale
            IN  /\ h.after.x_scale = Clamp(h.before.x_scale + net_x, 1, MAX_SCALE)
                /\ h.after.y_scale = Clamp(h.before.y_scale + net_y, 1, MAX_SCALE)
    /\ sprite.x_scale \in 1 .. MAX_SCALE
    /\ sprite.y_scale \in 1 .. MAX_SCALE

\* C19's case: the potions ask for a scale below 1
C19_Witness ==
    \E k \in Ticks :
        /\ hist[k].applied
        /\ ~hist[k].final
        /\ hist[k].folded[1] < 1

\* C20: a scale application moves the top-left position left by half the
\* change of the scaled width and up by the change of the scaled height, so
\* that the bottom edge loc.y + 16 * y_scale stays where it was; a tick that
\* leaves the scale as it was does not move the character.
C20_FeetStayPlanted ==
    \A k \in Ticks :
        LET h == hist[k]
        IN  /\ h.applied =>
                /\ h.after.loc[1] = h.before.loc[1]
                     - (SPRITE_WIDTH * h.after.x_scale - SPRITE_WIDTH * h.before.x_scale) \div 2
                /\ h.after.loc[2] = h.before.loc[2]
                     - (SPRITE_WIDTH * h.after.y_scale - SPRITE_WIDTH * h.before.y_scale)
                /\ h.after.loc[2] + SPRITE_WIDTH * h.after.y_scale
                     = h.before.loc[2] + SPRITE_WIDTH * h.before.y_scale
            /\ (h.after.x_scale = h.before.x_scale /\ h.after.y_scale = h.before.y_scale) =>
                h.after.loc = h.before.loc

\* C21: scale and position change only in a tick whose countdown, after the
\* tick's decrement, is at zero or below; while it is still positive nothing
\* is changed, also after the end sequence and the final flag are set.
C21_ChangeOnlyAtExpiry ==
    \A k \in Ticks :
        Moved(k) =>
            /\ hist[k].armed # <<>>
            /\ ~IsPositive(hist[k].armed[1] - 1)

\* the timer a tick leaves, given the one it finds after the pickups
TimerAfter(armed) ==
    IF armed = <<>> \/ armed[1] - 1 < 0 - Fps THEN <<>> ELSE <<armed[1] - 1>>

\* C22: when nothing is pending, nothing is drunk and the final flag is not
\* set, a tick changes neither scale nor position (no second trigger after
\* the change was applied); the timer goes down by one tick at every tick and
\* is cleared once it is more than a full duration below zero, so that a
\* character that drinks no more is idle a bounded number of ticks after its
\* last pickup; an idle character that drinks nothing is left as it is.
C22_NoRetriggerThenIdle ==
    \A k \in Ticks :
        LET h == hist[k]
        IN  /\ (h.queued = <<>> /\ ~h.final) => ~Moved(k)
            /\ h.after.potion_timer = TimerAfter(h.armed)
            /\ (h.drunk = <<>>) => h.armed = h.before.potion_timer
            /\ (h.before.potion_timer = <<>> /\ h.drunk = <<>>) => h.after = h.before

\* C22's case: a change was applied, nothing was drunk afterwards, and the
\* timer has been cleared
C22_Witness ==
    \E j, k \in Ticks :
        /\ j < k
        /\ hist[j].applied
        /\ ~hist[k].final
        /\ \A i \in (j + 1) .. k : hist[i].drunk = <<>> /\ ~Moved(i)
        /\ hist[k].before.potion_timer # <<>>
        /\ hist[k].after.potion_timer = <<>>

\* C23: final_potion_triggered is never reset; it is set only in a tick that
\* reaches the apply step with end_sequence_triggered true; once it is set
\* every application adds 20 to both scales (within 1 .. MAX_SCALE) whatever
\* the pending potions give, and every end of a countdown applies it.
C23_FinalLatches ==
    /\ final_potion_triggered = (hist # <<>> /\ hist[Len(hist)].final)
    /\ \A k \in Ticks :
         LET h == hist[k]
             was == k > 1 /\ hist[k - 1].final
         IN  /\ was => h.final
             /\ (h.final /\ ~was) => (h.end /\ h.expired)
             /\ (h.final /\ h.expired) =>
                    /\ h.applied
                    /\ h.after.x_scale = Clamp(h.before.x_scale + 20, 1, MAX_SCALE)
                    /\ h.after.y_scale = Clamp(h.before.y_scale + 20, 1, MAX_SCALE)
             /\ (h.final /\ h.armed # <<>> /\ ~IsPositive(h.armed[1] - 1)) => h.expired

\* C23's case: under the final flag, potions that ask for a smaller scale
\* are pending when a countdown ends
C23_Witness ==
    \E k \in Ticks :
        /\ hist[k].final
        /\ hist[k].expired
        /\ hist[k].folded[1] < hist[k].before.x_scale
        /\ hist[k].after.x_scale = hist[k].before.x_scale + 20

\* C24: a tick in which a potion flagged start_end is consumed sets
\* end_sequence_triggered, which is never reset; the potions left after that
\* tick all have the effect Relative(10,10), and those consumed in the tick
\* are queued with the effect they had before it.
C24_EndSequence ==
    /\ end_sequence_triggered = (hist # <<>> /\ hist[Len(hist)].end)
    /\ potions = (IF hist = <<>> THEN LevelPotions ELSE hist[Len(hist)].live)
    /\ \A k \in Ticks :
         LET h == hist[k]
         IN  /\ (h.start_end \/ (k > 1 /\ hist[k - 1].end)) => h.end
             /\ h.end => \A i \in 1 .. Len(h.live) : h.live[i].type = Relative(10, 10)
             /\ Len(h.live) = Len(h.potions) - Cardinality(h.consumed)
             /\ \A i \in h.consumed :
                  \E j \in 1 .. Len(h.queued) : h.queued[j] = h.potions[i].type

\* C24's case: the potion that starts the end sequence is consumed together
\* with another one, and potions with other effects are left
C24_Witness ==
    \E k \in Ticks :
        /\ hist[k].start_end
        /\ Cardinality(hist[k].consumed) = 2
        /\ \E i \in hist[k].consumed : hist[k].potions[i].type = Absolute(<<2>>, <<>>)
        /\ \E i \in 1 .. Len(hist[k].potions) :
             i \notin hist[k].consumed /\ hist[k].potions[i].type # Relative(10, 10)

\* the children of every subdivided node are pairwise disjoint, lie inside
\* the node and cover it
RECURSIVE ChildrenPartition(_)
ChildrenPartition(self) ==
    self.children # <<>> =>
        LET n == Len(self.children)
        IN  /\ \A i \in 1 .. n : Domain(self.children[i]) \subseteq Domain(self)
            /\ \A i, j \in 1 .. n :
                 i # j => Domain(self.children[i]) \cap Domain(self.children[j]) = {}
            /\ \A p \in Domain(self) : \E i \in 1 .. n : p \in Domain(self.children[i])
            /\ \A i \in 1 .. n : ChildrenPartition(self.children[i])

\* the areas of the children of a node (all four, or the first n)
RECURSIVE ChildrenArea(_, _)
ChildrenArea(self, n) ==
    IF n = 0 THEN 0 ELSE ChildrenArea(self, n - 1) + Area(self.children[n])

\* C28: for any domain size, the four children of a subdivided node are
\* pairwise disjoint, lie inside the parent's bounds and cover them exactly:
\* every pixel of the parent is in exactly one child and the children's areas
\* sum to the parent's area.
C28_ChildrenPartitionParent ==
    /\ ChildrenPartition(tree)
    /\ tree.children # <<>> => ChildrenArea(tree, Len(tree.children)) = Area(tree)

\* the number of cells of a carve that held solid terrain
RECURSIVE SolidCells(_, _)
SolidCells(cells, n) ==
    IF n = 0 THEN 0
    ELSE SolidCells(cells, n - 1) + (IF cells[n].had THEN 1 ELSE 0)

\* v points away from the centre c for a particle at loc (any direction does
\* when the particle is at the centre), and is not zero
PointsAway(v, loc, c) ==
    /\ v # <<0, 0>>
    /\ loc # c => (loc[1] - c[1]) * v[1] + (loc[2] - c[2]) * v[2] > 0

\* C25: in a tick with a growth carve the number of debris particles spawned
\* is the number of carve cells whose rectangle held at least one solid
\* terrain pixel before the carve, up to the room left under the limit of 300
\* particles; a cell whose rectangle held no terrain spawns none; every
\* particle spawned has a velocity that is not zero and points away from the
\* centre of the carve.
C25_DebrisPerSolidCell ==
    \A k \in Ticks :
        LET h == hist[k]
        IN  /\ Len(h.new_sprites)
                 = Min(SolidCells(h.cells, Len(h.cells)), Max(0, ParticleCap - h.particles))
            /\ \A i \in 1 .. Len(h.cells) : h.cells[i].spawned => h.cells[i].had
            /\ \A j \in 1 .. Len(h.new_sprites) :
                 PointsAway(h.new_sprites[j].velocity, h.new_sprites[j].loc,
                            CarveCentre(h.after))

\* the tiles (x, y) that hold a pixel of a rectangle: the tile of a pixel is
\* (x / TILE_SIZE, y / TILE_SIZE), as in add_terrain and add_foreground
OverlappingTiles(x, y, width, height) ==
    (TruncDiv(x, TILE_SIZE) .. TruncDiv(x + width - 1, TILE_SIZE))
        \X (TruncDiv(y, TILE_SIZE) .. TruncDiv(y + height - 1, TILE_SIZE))

\* C26: a carve cell from which foreground pixels were removed enqueues, with
\* layer 2, exactly the tiles that overlap its rectangle, and a cell from which
\* terrain pixels were removed enqueues them with layer 1; a cell enqueues
\* nothing else, and every tile it enqueues is in the queue after the tick.
C26_TilesOfCarvedCells ==
    \A k \in Ticks :
        \A i \in 1 .. Len(hist[k].cells) :
            LET c == hist[k].cells[i]
                over == OverlappingTiles(c.x, c.y, c.width, c.height)
            IN  /\ c.tiles = { <<2, t[1], t[2]>> : t \in IF c.fhad THEN over ELSE {} }
                                \cup { <<1, t[1], t[2]>> : t \in IF c.had THEN over ELSE {} }
                /\ c.tiles \subseteq Entries(tile_queue)

\* the sweeps made so far
Sweeps == 1 .. Len(swept)

\* a solid cell of the sprite's collider, with the sprite at loc, holds a
\* pixel of pixels
CellOverlaps(cell, loc, pixels) ==
    \E p \in pixels :
        /\ loc[1] + cell[1] * sprite.x_scale <= p[1]
        /\ p[1] < loc[1] + (cell[1] + 1) * sprite.x_scale
        /\ loc[2] + cell[2] * sprite.y_scale <= p[2]
        /\ p[2] < loc[2] + (cell[2] + 1) * sprite.y_scale

SolidCellsOf(b) == { <<i % SPRITE_WIDTH, i \div SPRITE_WIDTH>> : i \in b.collider }

Overlaps(loc, pixels) ==
    \E cell \in SolidCellsOf(body) : CellOverlaps(cell, loc, pixels)

\* at loc some solid cell overlaps terrain without also overlapping rubble
TerrainBlocks(loc, rubble) ==
    \E cell \in SolidCellsOf(body) :
        CellOverlaps(cell, loc, solid) /\ ~CellOverlaps(cell, loc, rubble)

\* tick k is the first in which the vertical pass of a falling sprite, in a
\* level without rubble whose sprite started at rest, stepped into the block
FirstLanding(k) ==
    /\ swept[1].rsolid = {}
    /\ swept[1].body.velocity = <<0, 0>>
    /\ swept[1].body.gravity
    /\ swept[k].falling
    /\ swept[k].ypass.tried # <<>>
    /\ Overlaps(swept[k].ypass.tried[1], solid)
    /\ \A j \in 1 .. (k - 1) : swept[j].ypass.tried = <<>>

\* C27: a sprite with gravity that starts at rest one scaled pixel above a
\* terrain block has ground_contact set and velocity.y at 0 at the end of the
\* first tick in which its vertical pass steps into the block, and its
\* position at the end of that tick does not overlap the block.
C27_LandsOnBlock ==
    \A k \in Sweeps :
        FirstLanding(k) =>
            /\ swept[k].landed.ground_contact
            /\ swept[k].landed.velocity[2] = 0
            /\ ~Overlaps(swept[k].after, solid)

C27_Witness ==
    \E k \in Sweeps :
        /\ FirstLanding(k)
        /\ swept[k].ypass.commits # <<>>
        /\ swept[k].landed.ground_contact
        /\ body = swept[k].landed

\* the candidates a pass committed are one step apart, starting from from
Stepwise(pass, from, axis, dir) ==
    \A i \in 1 .. Len(pass.commits) :
        pass.commits[i] = IF axis = 2 THEN <<from[1], from[2] + i * dir>>
                          ELSE <<from[1] + i * dir, from[2]>>

\* where a pass left the sprite
PassEnd(pass, from) ==
    IF pass.commits = <<>> THEN from ELSE pass.commits[Len(pass.commits)]

\* C29: a candidate position is committed only if at it no solid cell of the
\* collider overlaps terrain without also overlapping rubble; a pass that is
\* blocked stops at the last candidate committed, short of its distance, and
\* one that is not blocked goes its whole distance; the vertical pass is made
\* first, from the position before the tick, and the horizontal pass starts
\* where the vertical one ended and leaves y alone.
C29_SweepCommitsFreeSteps ==
    \A k \in Sweeps :
        LET h == swept[k]
            mid == PassEnd(h.ypass, h.before)
        IN  /\ \A i \in 1 .. Len(h.ypass.commits) :
                 ~TerrainBlocks(h.ypass.commits[i], h.rsolid)
            /\ \A i \in 1 .. Len(h.xpass.commits) :
                 ~TerrainBlocks(h.xpass.commits[i], h.rsolid)
            /\ Stepwise(h.ypass, h.before, 2, IF h.vy < 0 THEN 0 - 1 ELSE 1)
            /\ Stepwise(h.xpass, mid, 1, IF h.vx < 0 THEN 0 - 1 ELSE 1)
            /\ h.ypass.blocked <=> Len(h.ypass.commits) < Abs(h.vy)
            /\ h.xpass.blocked <=> Len(h.xpass.commits) < Abs(h.vx)
            /\ h.ypass.blocked => TerrainBlocks(h.ypass.tried[1], h.rsolid)
            /\ h.xpass.blocked => TerrainBlocks(h.xpass.tried[1], h.rsolid)
            /\ h.swept_to = PassEnd(h.xpass, mid)

C29_Witness ==
    \E k \in Sweeps :
        /\ swept[k].ypass.blocked
        /\ \E i \in 1 .. Len(swept[k].xpass.commits) :
             /\ Overlaps(swept[k].xpass.commits[i], solid)
             /\ Overlaps(swept[k].xpass.commits[i], swept[k].rsolid)

\* C30: the rubble map is cleared in a tick only if the player, where the
\* sweep of that tick left it, overlaps no rubble pixel; a player that still
\* overlaps rubble there, moved or not, leaves the rubble map as it was.
C30_RubbleClearedOutsideOnly ==
    \A k \in Sweeps :
        /\ swept[k].cleared =>
             /\ swept[k].body.is_player
             /\ ~Overlaps(swept[k].swept_to, swept[k].rsolid)
        /\ ~swept[k].cleared => (k = Len(swept) => rsolid = swept[k].rsolid)

\* every node's free_pixels lies in 0 .. width * height
RECURSIVE CounterInRange(_)
CounterInRange(self) ==
    /\ self.free_pixels >= 0
    /\ self.free_pixels <= Area(self)
    /\ \A i \in 1 .. Len(self.children) : CounterInRange(self.children[i])

\* C31: in no sequence of insert, insert_rect, remove_rect and clear calls is
\* a node's free_pixels taken below 0 (no u32 subtraction or addition leaves
\* its range, in either build) or above width * height.
C31_CounterStaysInRange ==
    /\ last.res # "Overflow"
    /\ ~wrapped
    /\ CounterInRange(tree)

SpawnedBefore(k, i) ==
    Cardinality({ j \in 1 .. (i - 1) : hist[k].cells[j].spawned })

\* C38: the live particles never exceed the limit at the end of a tick: a
\* cell of a carve spawns a debris only while the particles alive before the
\* tick and those spawned so far in it are fewer than the limit, and a cell
\* whose terrain was removed once the limit is reached spawns none.
C38_ParticleCap ==
    /\ Len(particles) <= ParticleCap
    /\ \A k \in Ticks :
         /\ Len(hist[k].new_sprites) =
              Cardinality({ i \in 1 .. Len(hist[k].cells) : hist[k].cells[i].spawned })
         /\ \A i \in 1 .. Len(hist[k].cells) :
              hist[k].cells[i].spawned <=>
                  /\ hist[k].cells[i].cnt # 0
                  /\ hist[k].particles + SpawnedBefore(k, i) < ParticleCap

C38_Witness ==
    /\ Len(particles) = ParticleCap
    /\ \E k \in Ticks : \E i \in 1 .. Len(hist[k].cells) :
         /\ hist[k].cells[i].cnt # 0
         /\ ~hist[k].cells[i].spawned

\* no entry is in the queue twice
NoDuplicates(q) == Cardinality(Entries(q)) = Len(q)

\* what the last step of the cache warmer did to the queue it found after
\* adding chunks: it removed an entry if there was one, the entries removed
\* are those it redrew (the ones at the indices picked), and the others stay
WarmStepRemoves ==
    warmed # NoWarm =>
        /\ warmed.queue # <<>> => warmed.removed # <<>>
        /\ Entries(warmed.removed) = { warmed.queue[i] : i \in warmed.picked }
        /\ NoDuplicates(warmed.removed)
        /\ Entries(tile_queue) = Entries(warmed.queue) \ Entries(warmed.removed)
        /\ Len(tile_queue) = Len(warmed.queue) - Len(warmed.removed)

\* C40: the queue never holds an entry twice; a step of the cache warmer that
\* finds it non-empty removes at least one entry and exactly the entries it
\* redrew, the others staying queued; and once no chunk is left to add, the
\* steps of the cache warmer empty the queue.
C40_QueueDrains ==
    /\ [](NoDuplicates(tile_queue) /\ WarmStepRemoves)
    /\ (terrain_chunks = <<>>) ~> (tile_queue = <<>>)

C40_Witness ==
    /\ warmed # NoWarm
    /\ Len(warmed.removed) >= 2
    /\ \E i \in warmed.picked : i < Len(warmed.queue)
    /\ tile_queue # <<>>

\* C35: no insert and no insert_rect, the calls that subdivide a node or
\* allocate the grid of a leaf for the first time included, makes a pixel
\* that the tree held solid before the call (check_point reported it) be
\* reported free by check_point after it: no occupancy is lost.
C35_InsertKeepsSolid ==
    (~panicked /\ last.op \in {"insert", "insert_rect"}) =>
        \A p \in Domain(prev.tree) :
            check_point(prev.tree, p[1], p[2]) => check_point(tree, p[1], p[2])

----------------------------------------------------------------------------
(* The claims about the whole tick are stated on the record of the last    *)
(* tick, the last entry of `ticks'.                                        *)

\* the record of the last tick
LastTick == ticks[Len(ticks)]

\* the particles the settle pass of a tick finds grounded and asleep (and
\* not below the line where they are dropped)
Settling(t) ==
    { id \in Entries(t.before.particles) \cap DOMAIN t.did.after_sweep :
        /\ t.did.after_sweep[id].sprite.loc[2] <= DespawnY
        /\ t.did.after_sweep[id].body.ground_contact
        /\ IsAsleep(t.did.after_sweep[id].body) }

\* the pixels of the solid cells of a sprite of the table
SolidPixels(e) ==
    UNION { ((e.sprite.loc[1] + c[1] * e.sprite.x_scale)
                .. (e.sprite.loc[1] + (c[1] + 1) * e.sprite.x_scale - 1))
            \X ((e.sprite.loc[2] + c[2] * e.sprite.y_scale)
                .. (e.sprite.loc[2] + (c[2] + 1) * e.sprite.y_scale - 1)) :
            c \in CellsOf(e.body.collider) }

\* C33: a particle the settle pass finds grounded with its sleep timer above
\* 0.5 s leaves the list of particles and the sprite table, and at the end
\* of the settle pass every pixel of its solid cells inside the world is
\* solid in the collision map and in the rubble map.
C33_SettleMakesTerrain ==
    Len(ticks) > 0 =>
        \A id \in Settling(LastTick) :
            /\ id \notin Entries(LastTick.stepped.particles)
            /\ id \notin DOMAIN LastTick.stepped.sprites
            /\ LastTick.did.after_settle # <<>>
            /\ \A p \in SolidPixels(LastTick.did.after_sweep[id])
                          \cap Domain(LastTick.did.after_settle[1].collision_map) :
                  /\ check_point(LastTick.did.after_settle[1].collision_map, p[1], p[2])
                  /\ check_point(LastTick.did.after_settle[1].rubble_map, p[1], p[2])

\* a particle has settled on pixels of the world that neither map held
C33_Witness ==
    /\ Len(ticks) > 0
    /\ \E id \in Settling(LastTick) :
          \E p \in SolidPixels(LastTick.did.after_sweep[id])
                      \cap Domain(LastTick.did.after_settle[1].collision_map) :
             /\ ~check_point(LastTick.maps_before[1].collision_map, p[1], p[2])
             /\ ~check_point(LastTick.maps_before[1].rubble_map, p[1], p[2])
             /\ check_point(tree, p[1], p[2])

\* C34: for every pixel a settling particle has made solid, at positive or
\* negative coordinates, the tile the renderer redraws for that pixel, the
\* tile (tx, ty) with tx * 256 <= x < tx * 256 + 256 and ty * 256 <= y <
\* ty * 256 + 256, is in the queue with layer 1 at the end of the tick.
C34_SettledTilesQueued ==
    (Len(ticks) > 0 /\ ~LastTick.failed) =>
        \A id \in Settling(LastTick) :
            \A p \in SolidPixels(LastTick.did.after_sweep[id])
                        \cap Domain(LastTick.did.after_settle[1].collision_map) :
                check_point(LastTick.did.after_settle[1].collision_map, p[1], p[2]) =>
                    \E tile \in Entries(LastTick.queue) :
                        /\ tile[1] = 1
                        /\ p \in TilePixels(tile[2], tile[3])

\* the body a sprite enters the sweep of tick t with: the input of the frame
\* is applied to the player before step_physics is called
SweptBody(t, id) ==
    IF t.before.sprites[id].body.is_player
    THEN Input(t.before.sprites[id].body, t.key)
    ELSE t.before.sprites[id].body

\* the rubble maps a sweep of tick t can find: the one the tick started with,
\* or the one the sweep of the player has left
RubbleOfTick(t) ==
    {t.maps_before[1].rubble_map}
        \cup { Sweep(t.before.sprites[id].sprite, SweptBody(t, id),
                     t.maps_before[1].rubble_map,
                     t.maps_before[1].collision_map).rubble_map :
               id \in { i \in t.did.swept : t.before.sprites[i].body.is_player } }

\* every sweep of tick t is the sweep against the collision map the tick
\* started with: what the tick settles does not block it, what the tick
\* carves still does
SweepsSeeOldTerrain(t) ==
    \E rubbles \in {RubbleOfTick(t)} :
        \A id \in t.did.swept :
            \E rubble \in rubbles :
                \E r \in { Sweep(t.before.sprites[id].sprite, SweptBody(t, id), rubble,
                                 t.maps_before[1].collision_map) } :
                    /\ t.did.after_sweep[id].sprite.loc = r.loc
                    /\ t.did.after_sweep[id].body = r.body

\* the debris tick t has spawned joins the scene after every pass: it is in
\* no table the passes of the tick worked on, and ends the tick as spawned
SpawnedAtEnd(t) ==
    \A id \in t.did.spawned :
        /\ id \notin DOMAIN t.before.sprites
        /\ id \notin t.did.swept
        /\ id \notin DOMAIN t.did.after_sweep
        /\ id \notin t.did.settled \cup t.did.despawned
        /\ id \notin DOMAIN t.did.after_pickups
        /\ id \in DOMAIN t.stepped.sprites
        /\ id \in Entries(t.stepped.particles)
        /\ t.stepped.sprites[id].body.sleep_timer = 0
        /\ ~t.stepped.sprites[id].body.ground_contact

\* C36: in a tick the sweep of every sprite comes first, then the settle of
\* the particles, then the pickups, then the changes of scale with their
\* carves.  So the sweeps of a tick run against the terrain the tick started
\* with (terrain it settles does not block them, terrain it carves does), the
\* settle works on what the sweeps left, the sprites that change scale are
\* those the pickups left, and the debris of a carve joins the scene at the
\* end of the tick and is first swept in the next.
C36_OrderInTick ==
    Len(ticks) > 0 =>
        /\ SweepsSeeOldTerrain(LastTick)
        /\ LastTick.did.settled = Settling(LastTick)
        /\ \A i \in 1 .. Len(LastTick.did.carved) :
              LastTick.did.carved[i] \in DOMAIN LastTick.did.after_pickups
        /\ SpawnedAtEnd(LastTick)
        /\ (Len(ticks) > 1 /\ ~ticks[Len(ticks) - 1].restarted) =>
              \A id \in ticks[Len(ticks) - 1].did.spawned :
                  \/ id \in LastTick.did.swept
                  \/ IsCulled(LastTick.camera, LastTick.camera_scale,
                              LastTick.before.sprites[id].sprite.loc)

\* a tick whose carve took the terrain that had held the player in its sweep
\* and spawned a debris, the debris swept in the next tick, and a later tick
\* that settled a particle after sweeping others
C36_Witness ==
    /\ Len(ticks) > 2
    /\ \E i \in 1 .. Len(ticks) - 1 :
          /\ ticks[i].did.spawned # {}
          /\ \E id \in ticks[i].did.swept :
                /\ ticks[i].did.after_sweep[id].body.is_player
                /\ ticks[i].did.after_sweep[id].body.ground_contact
                /\ id \in Entries(ticks[i].did.carved)
          /\ ticks[i].did.spawned \subseteq ticks[i + 1].did.swept
    /\ LastTick.did.settled # {}
    /\ LastTick.did.swept \ LastTick.did.settled # {}

\* the sprites further from the camera than 1920 * camera_scale when tick t
\* starts
Culled(t) ==
    { id \in DOMAIN t.before.sprites :
        IsCulled(t.camera, t.camera_scale, t.before.sprites[id].sprite.loc) }

\* C37: a sprite further from the camera than 1920 * camera_scale at the
\* start of a tick is frozen for the tick: step_physics leaves it in the
\* scene, with its position, velocity, ground_contact, jumping, sleep timer,
\* scale, pending potions and countdown timer as they were.
C37_CulledIsFrozen ==
    (Len(ticks) > 0 /\ ~LastTick.failed) =>
        \A id \in Culled(LastTick) :
            /\ id \in DOMAIN LastTick.stepped.sprites
            /\ LastTick.stepped.sprites[id] = LastTick.before.sprites[id]

\* the four lists of ids of a scene
IdLists(sc) ==
    <<sc.particles, sc.characters,
      [i \in 1 .. Len(sc.potions) |-> sc.potions[i].id], sc.collectables>>

\* every id of the four lists is a key of the sprite table, and no id is
\* twice in a list or in two lists
ListsMatchTable(sc) ==
    /\ \A k \in 1 .. 4 :
          /\ NoDuplicates(IdLists(sc)[k])
          /\ Entries(IdLists(sc)[k]) \subseteq DOMAIN sc.sprites
    /\ \A k, j \in 1 .. 4 :
          k # j => Entries(IdLists(sc)[k]) \cap Entries(IdLists(sc)[j]) = {}

\* the characters of the list of tick t that overlap the sprite id in the
\* pickups of the tick, by their place in the list
Overlapping(t, id) ==
    { k \in 1 .. Len(t.before.characters) :
        overlap(t.did.after_sweep[t.before.characters[k]], t.did.after_sweep[id]) }

\* a potion or a collectable that characters overlap in tick t is taken once,
\* the potion by the first of them in the list
TakenOnce(t) ==
    /\ Len(t.did.drinkers) = Cardinality(t.did.consumed)
    /\ \A i \in 1 .. Len(t.before.potions) :
          LET potion == t.before.potions[i]
              over == Overlapping(t, potion.id)
          IN  IF over = {} THEN potion.id \notin t.did.consumed
              ELSE /\ potion.id \in t.did.consumed
                   /\ potion.id \notin DOMAIN t.stepped.sprites
                   /\ \E n \in 1 .. Len(t.did.drinkers) :
                         t.did.drinkers[n] =
                            <<t.before.characters[CHOOSE k \in over :
                                                     \A j \in over : k <= j],
                              potion.type>>
    /\ \A id \in Entries(t.before.collectables) :
          (Overlapping(t, id) # {}) <=> (id \in t.did.collected)
    /\ t.stepped.score = t.before.score + Cardinality(t.did.collected)

\* C39: at the end of every tick every id of the lists of particles,
\* characters, potions and collectables is a key of the sprite table, no id
\* is in two lists or twice in one, a potion or collectable that several
\* characters overlap in a tick is taken once, by the first of them in the
\* list, and no lookup of step_physics in the sprite table fails.
C39_ListsMatchTable ==
    Len(ticks) > 0 =>
        /\ ~LastTick.failed
        /\ TakenOnce(LastTick)
        /\ ListsMatchTable(LastTick.stepped)
        /\ ListsMatchTable(scene)

====
